---- MODULE Spec2Model ----
(***************************************************************************)
(* Conversation orchestration of the kumak assistant.                      *)
(*                                                                         *)
(* Three deployments of the LangGraph executor are modelled, each as its   *)
(* own specification over one set of variables:                            *)
(*   Spec         WhatsApp adapter -> process_message -> multi-agent       *)
(*                supervisor graph (routers/whatsapp.py, chat_service.py,  *)
(*                multi_agent_supervisor.py, handoff_system.py,            *)
(*                enhanced_agents.py)                                      *)
(*   SpecCentral  process_message_with_central_orchestrator: the ReAct     *)
(*                agent <-> tools loop with its PostgreSQL retry loops      *)
(*                (central_orchestrator.py, database/postgres.py)          *)
(*   SpecPymes    the PYMES graph with its validation nodes and the        *)
(*                generate_response / action / human_feedback loop         *)
(*                (pymes_graph.py, nodes.py, business_info_extraction.py,  *)
(*                research_subgraph.py)                                    *)
(***************************************************************************)
EXTENDS Integers, Sequences, FiniteSets, TLC

(***************************************************************************)
(* Bounds of the model.                                                    *)
(***************************************************************************)
\* inbound WhatsApp messages handled in one behaviour (all threads together)
MaxInbound == 2
\* the executor's recursion ceiling (recursion_limit of the run's config)
RecursionLimit == 5

(***************************************************************************)
(* Texts.  A text is a string; strip() and lower() are given by what they  *)
(* do to the texts of the model, keyword tests by the substrings a         *)
(* lowered text holds.                                                     *)
(***************************************************************************)
UserTexts == {"hola", " DONE ", "investiga el mercado", "quiero cambiar"}

Lower(s) ==
    CASE s = " DONE " -> " done "
      [] s = "DONE"   -> "done"
      [] s = "Done"   -> "done"
      [] OTHER        -> s

Strip(s) ==
    CASE s = " DONE " -> "DONE"
      [] s = " done " -> "done"
      [] s = " Lima " -> "Lima"
      [] s = "  "     -> ""
      [] OTHER        -> s

\* keyword in text  (Python substring test)
Contains(s, kw) ==
    \/ s = kw
    \/ s = "investiga el mercado" /\ kw \in {"investiga", "mercado"}
    \/ s = "quiero cambiar" /\ kw = "cambiar"
    \/ s = " done " /\ kw = "done"
    \/ s = " DONE " /\ kw = "DONE"
    \/ s = "corregir sector" /\ kw = "corregir"
    \/ s = "investiga y dime qué opinas" /\ kw \in {"investiga", "qué opinas"}
    \/ s = "mejor dicho investiga" /\ kw \in {"mejor dicho", "investiga"}

AnyKeyword(s, kws) == \E kw \in kws : Contains(s, kw)

(***************************************************************************)
(* Messages and the add_messages reducer of MessagesState.                 *)
(***************************************************************************)
NoId == 0

HumanMessage(content) == [role |-> "human", content |-> content, id |-> NoId]
AIMessage(content)    == [role |-> "ai", content |-> content, id |-> NoId]

\* an id no message of the list has (the reducer draws a uuid4): the ids
\* of a list of n messages are among 1..n, a replacement keeps the length
FreshId(left) == Len(left) + 1

\* a message without id gets a fresh one when it reaches the reducer
AssignId(left, m) == IF m.id = NoId THEN [m EXCEPT !.id = FreshId(left)] ELSE m

\* one message merged into the list: replaced in place when its id is
\* already there, appended otherwise
MergeOne(left, m) ==
    IF m.id = NoId THEN Append(left, AssignId(left, m))
    ELSE IF \E i \in 1..Len(left) : left[i].id = m.id
    THEN [i \in 1..Len(left) |-> IF left[i].id = m.id THEN m ELSE left[i]]
    ELSE Append(left, m)

RECURSIVE add_messages(_, _)
add_messages(left, right) ==
    IF right = <<>> THEN left
    ELSE add_messages(MergeOne(left, Head(right)), Tail(right))

RECURSIVE LastContent(_, _, _)
\* content of the last message of a role, scanning reversed(messages)
LastContent(msgs, role, default) ==
    IF msgs = <<>> THEN default
    ELSE IF msgs[Len(msgs)].role = role THEN msgs[Len(msgs)].content
    ELSE LastContent(SubSeq(msgs, 1, Len(msgs) - 1), role, default)

CountContent(msgs, role, content) ==
    Cardinality({i \in 1..Len(msgs) : msgs[i].role = role /\ msgs[i].content = content})

(***************************************************************************)
(* State.                                                                  *)
(***************************************************************************)
VARIABLES
    \* --- WhatsApp adapter and the multi-agent supervisor graph ---
    checkpoint,         \* checkpoint store: thread id -> latest state record
    active_interrupts,  \* routers/whatsapp.py: threads waiting for a resume
    run,                \* the process_message call in progress
    result,             \* thread id -> result of its last process_message call
    inbound,            \* inbound messages handled so far
    \* --- central orchestrator ---
    cstore,             \* checkpoint store: persisted messages of the thread
    central,            \* the process_message_with_central_orchestrator call
    cresult,            \* the dict its last call returned
    ccalls,             \* calls made so far
    \* --- PYMES graph ---
    pthread,            \* checkpoint store: state, next nodes, pending interrupts
    prun,               \* the graph.invoke call in progress
    presult,            \* how the last graph.invoke ended
    pcalls,             \* graph.invoke calls made so far
    \* --- the agent <-> tools loop with its tool calls ---
    tstate,             \* state record of the graph: messages, business_info
    trun,               \* the run of the loop: active node, calls in flight
    \* --- routing functions applied to a state record ---
    rstate,             \* the state record a routing function is given
    routed,             \* the last application: function, collaborators, target
    \* --- long-term memory (MemoryService) and its callers ---
    memory,             \* the store: key -> business information saved under it
    mthreads,           \* thread id -> business_info and stage of its state record
    mlast,              \* the last call: caller, thread, key, what it did
    \* --- the retry loops around the PostgreSQL checkpoint store ---
    retry,              \* the loop in progress: attempts made, waits slept
    \* --- the deep-research graph (planner, parallel workers, synthesizer) ---
    research            \* the run: plan, workers in flight, results, report

chatVars == <<checkpoint, active_interrupts, run, result, inbound>>
centralVars == <<cstore, central, cresult, ccalls>>
pymesVars == <<pthread, prun, presult, pcalls>>
toolVars == <<tstate, trun>>
routeVars == <<rstate, routed>>
memoryVars == <<memory, mthreads, mlast>>
retryVars == <<retry>>
researchVars == <<research>>

vars == <<chatVars, centralVars, pymesVars, toolVars, routeVars, memoryVars,
          retryVars, researchVars>>

Threads == {"whatsapp_1", "whatsapp_2"}

CriticalFields ==
    {"nombre_empresa", "ubicacion", "productos_servicios_principales", "descripcion_negocio"}

\* what the extraction collaborator can find in one message
ExtractChoices == {{}, CriticalFields}

NoResume == "<no resume value>"
NoInterrupt == [node |-> "none", answer |-> ""]

\* a thread the checkpoint store holds nothing for
EmptyRecord ==
    [messages |-> <<>>, business_info |-> {}, stage |-> "none",
     next |-> {}, interrupt |-> NoInterrupt]

Idle ==
    [pc |-> "idle", thread |-> "none", message |-> "", is_resuming |-> FALSE,
     reset_thread |-> FALSE, prevStatus |-> "none", input |-> [kind |-> "none"], resume |-> NoResume,
     count |-> 0, start |-> "none", raised |-> {}]

NoResult == [status |-> "none", answer |-> ""]

(***************************************************************************)
(* Nodes of the multi-agent supervisor graph.  A node returns a Command:   *)
(* [goto, update] or, from interrupt(), a GraphInterrupt with its payload. *)
(***************************************************************************)
termination_words ==
    {"done", "thanks", "bye", "adios", "terminate", "exit", "gracias", "chau", "fin"}

\* handoff_system.py conditional_entry_point
conditional_entry_point(state) == "intelligent_supervisor"

\* handoff_system.py intelligent_supervisor_node, lines 183-252: the tests of
\* the routing chain with their targets, in the order of the code
SupervisorPredicates(user_message, business_info) ==
    LET message_lower == Lower(user_message)
    IN  <<[holds  |-> Lower(Strip(user_message)) \in termination_words,
           target |-> "END"],
          [holds  |-> AnyKeyword(message_lower, {"corrección", "cambiar", "actualizar",
                                                 "mejor dicho", "en realidad"}),
           target |-> "info_completion_agent"],
          [holds  |-> CriticalFields \ business_info # {},
           target |-> "info_completion_agent"],
          [holds  |-> AnyKeyword(message_lower, {"investiga", "analiza", "oportunidades",
                                                 "mercado", "competencia", "crecimiento"}),
           target |-> "researcher"],
          [holds  |-> AnyKeyword(message_lower, {"qué opinas", "consejo específico",
                                                 "recomienda algo", "tu opinión"}),
           target |-> "conversational_agent"]>>

\* a supervisor that tests the wish for a conversation before the others
intelligent_supervisor_node_conversationFirst(state, ok, found) ==
    LET user_message  == LastContent(state.messages, "human", "")
        business_info == IF user_message # "" /\ Len(state.messages) > 1
                         THEN state.business_info \cup found
                         ELSE state.business_info
        preds == SupervisorPredicates(user_message, business_info)
        goto ==
            IF preds[5].holds THEN preds[5].target
            ELSE IF preds[1].holds THEN preds[1].target
            ELSE IF preds[2].holds THEN preds[2].target
            ELSE IF preds[3].holds THEN preds[3].target
            ELSE IF preds[4].holds THEN preds[4].target
            ELSE "research_router"
    IN  IF ok
        THEN [kind |-> "command", goto |-> goto,
              update |-> [state EXCEPT !.business_info = business_info]]
        ELSE [kind |-> "command", goto |-> "info_completion_agent", update |-> state]

\* handoff_system.py intelligent_supervisor_node; found is what extract_info
\* adds to business_info for the last user message (nothing when it raises),
\* ok is FALSE when the body raises into the outer except branch
intelligent_supervisor_node(state, ok, found) ==
    LET user_message  == LastContent(state.messages, "human", "")
        business_info == IF user_message # "" /\ Len(state.messages) > 1
                         THEN state.business_info \cup found
                         ELSE state.business_info
        missing_critical == CriticalFields \ business_info
        can_research  == missing_critical = {}
        message_lower == Lower(user_message)
        wants_research ==
            AnyKeyword(message_lower, {"investiga", "analiza", "oportunidades",
                                       "mercado", "competencia", "crecimiento"})
        wants_conversation ==
            AnyKeyword(message_lower, {"qué opinas", "consejo específico",
                                       "recomienda algo", "tu opinión"})
        wants_to_change ==
            AnyKeyword(message_lower, {"corrección", "cambiar", "actualizar",
                                       "mejor dicho", "en realidad"})
        goto ==
            IF Lower(Strip(user_message)) \in termination_words THEN "END"
            ELSE IF wants_to_change THEN "info_completion_agent"
            ELSE IF ~can_research THEN "info_completion_agent"
            ELSE IF wants_research THEN "researcher"
            ELSE IF wants_conversation THEN "conversational_agent"
            ELSE "research_router"
    IN  IF ok
        THEN [kind |-> "command", goto |-> goto,
              update |-> [state EXCEPT !.business_info = business_info]]
        ELSE [kind |-> "command", goto |-> "info_completion_agent", update |-> state]

AgentNodes ==
    {"info_completion_agent", "research_router", "conversational_agent", "researcher"}

\* the fallback message of each agent node's except branch
FallbackMessage(node) ==
    CASE node = "info_completion_agent" -> "Disculpa, hubo un error. ¿Podrías contarme sobre tu negocio?"
      [] node = "research_router"       -> "¿Te gustaría que investigue oportunidades para tu negocio?"
      [] node = "conversational_agent"  -> "¿En qué puedo ayudarte con tu negocio?"
      [] node = "researcher"            -> "Hubo un error en la investigación."

AgentStage(node) ==
    CASE node = "info_completion_agent" -> "info_gathering"
      [] node = "research_router"       -> "research_routing"
      [] node = "conversational_agent"  -> "conversational"
      [] node = "researcher"            -> "research_completed"

\* an agent node that hands control back to the supervisor
enhanced_agent_node_backToSupervisor(node, state, ok, found) ==
    [kind |-> "command", goto |-> "intelligent_supervisor",
     update |-> [state EXCEPT
         !.messages = add_messages(@, <<AIMessage("llm_answer")>>),
         !.stage = AgentStage(node)]]

\* the agent node whose except branch returns no message
enhanced_agent_node_silent(node, state, ok, found) ==
    IF ok
    THEN [kind |-> "command", goto |-> "enhanced_human_feedback",
          update |-> [state EXCEPT
              !.messages = add_messages(@, <<AIMessage("llm_answer")>>),
              !.business_info = IF node = "info_completion_agent" THEN @ \cup found ELSE @,
              !.stage = AgentStage(node)]]
    ELSE [kind |-> "command", goto |-> "enhanced_human_feedback", update |-> state]

\* enhanced_agents.py enhanced_*_node: ok is FALSE when the agent (or a
\* collaborator it calls) raises; found as for the supervisor
enhanced_agent_node(node, state, ok, found) ==
    IF ok
    THEN [kind |-> "command", goto |-> "enhanced_human_feedback",
          update |-> [state EXCEPT
              !.messages = add_messages(@, <<AIMessage("llm_answer")>>),
              !.business_info = IF node = "info_completion_agent" THEN @ \cup found ELSE @,
              !.stage = AgentStage(node)]]
    ELSE [kind |-> "command", goto |-> "enhanced_human_feedback",
          update |-> [state EXCEPT
              !.messages = add_messages(@, <<AIMessage(FallbackMessage(node))>>)]]

\* handoff_system.py enhanced_human_feedback_node; resume is the value
\* interrupt() returns, NoResume when the executor has none to inject
enhanced_human_feedback_node(state, resume) ==
    LET latest_answer ==
            LastContent(state.messages, "ai", "Esperando respuesta del asistente.")
    IN  IF resume = NoResume
        THEN [kind |-> "interrupt", goto |-> "none",
              payload |-> [node |-> "enhanced_human_feedback", answer |-> latest_answer],
              update |-> state]
        ELSE [kind |-> "command", goto |-> "intelligent_supervisor",
              update |-> [state EXCEPT
                  !.messages = add_messages(@, <<HumanMessage(resume)>>)]]

(***************************************************************************)
(* The executor (compiled graph) as process_message drives it.             *)
(***************************************************************************)
\* chat_service.py process_message, lines 104-134: the graph_input of the
\* three branches; every branch builds a plain state dict
process_message_input(message, is_resuming, reset_thread) ==
    IF reset_thread \/ ~is_resuming
    THEN [kind |-> "state", messages |-> <<HumanMessage(message)>>, initial |-> TRUE]
    ELSE [kind |-> "state", messages |-> <<HumanMessage(message)>>, initial |-> FALSE]

\* an executor that stores the messages of a state input without the reducer
InvokeFirst_overwrites(state, input) ==
    [state |-> [state EXCEPT
         !.messages = input.messages,
         !.business_info = IF input.initial THEN {} ELSE @,
         !.interrupt = NoInterrupt,
         !.next = {conditional_entry_point(state)}],
     resume |-> NoResume]

\* graph.invoke(graph_input, config), first phase.  A Command(resume=v)
\* re-enters the pending node with v as the value of its interrupt(); any
\* other input discards the pending tasks, is merged into the saved state
\* (messages through add_messages, the other keys overwritten) and the run
\* starts at the entry point.
InvokeFirst(state, input) ==
    IF input.kind = "resume"
    THEN [state |-> [state EXCEPT !.interrupt = NoInterrupt], resume |-> input.value]
    ELSE [state |-> [state EXCEPT
              !.messages = add_messages(@, input.messages),
              !.business_info = IF input.initial THEN {} ELSE @,
              !.interrupt = NoInterrupt,
              !.next = {conditional_entry_point(state)}],
          resume |-> NoResume]

\* an executor that allows one step past the ceiling
OutOfSteps_late(count) == count >= RecursionLimit + 1

\* the executor refuses a further step once the ceiling is reached
OutOfSteps(count) == count >= RecursionLimit

\* a Command (or interrupt) of a node merged into the thread's record
AfterNode(cmd) ==
    IF cmd.kind = "interrupt"
    THEN [cmd.update EXCEPT !.interrupt = cmd.payload]
    ELSE [cmd.update EXCEPT !.next = IF cmd.goto = "END" THEN {} ELSE {cmd.goto}]

\* a process_message that reports every returned run as completed
process_message_result_alwaysCompleted(state) ==
    [status |-> "completed",
     answer |-> LastContent(state.messages, "ai",
                            "El asistente no generó una respuesta en este turno.")]

\* chat_service.py process_message, lines 147-238: the result of a call
\* whose graph.invoke returned
process_message_result(state) ==
    LET is_interrupted ==
            \/ state.interrupt # NoInterrupt
            \/ \E n \in state.next : n \in {"enhanced_human_feedback", "human_feedback"}
        default == "El asistente no generó una respuesta en este turno."
        from_interrupt ==
            IF state.interrupt # NoInterrupt THEN state.interrupt.answer ELSE default
        final_answer ==
            IF from_interrupt = default
            THEN LastContent(state.messages, "ai", default)
            ELSE from_interrupt
    IN  [status |-> IF is_interrupted THEN "interrupted" ELSE "completed",
         answer |-> final_answer]

\* chat_service.py process_message, lines 240-258: the except branch
process_message_error ==
    [status |-> "error",
     answer |-> "Disculpa, encontré un problema técnico. Por favor intenta nuevamente."]

\* chat_service.py process_message, lines 232-238 and 251-258: the dict of
\* either return statement carries the thread id next to status and answer
ResultDict(thread_id, res) ==
    [thread_id |-> thread_id, status |-> res.status, answer |-> res.answer]

\* chat_service.py process_message, lines 170-173: the dict returned when
\* checkpointer.get(config) gives nothing after graph.invoke returned
process_message_no_checkpoint ==
    [status |-> "error", error |-> "Checkpoint dict retrieval failed"]

\* the adapter that forgets to record the interrupted thread
handle_chat_result_forgets(interrupts, thread_id, res) == interrupts

\* routers/whatsapp.py handle_chat_result: the adapter's bookkeeping
handle_chat_result(interrupts, thread_id, res) ==
    IF res.status = "interrupted" THEN interrupts \cup {thread_id} ELSE interrupts

(***************************************************************************)
(* Actions of the adapter and of one process_message call.                 *)
(***************************************************************************)
ChatFrame ==
    UNCHANGED <<centralVars, pymesVars, toolVars, routeVars, memoryVars, retryVars, researchVars>>

\* a handler that starts while the process_message call of another is running
HandleIncoming_concurrent(t, text) ==
    /\ inbound < MaxInbound
    /\ LET is_resuming == t \in active_interrupts
       IN  /\ active_interrupts' = active_interrupts \ {t}
           /\ run' = [Idle EXCEPT
                  !.pc = "invoke", !.thread = t, !.message = text,
                  !.is_resuming = is_resuming,
                  !.prevStatus = result[t].status,
                  !.input = process_message_input(text, is_resuming, FALSE)]
    /\ inbound' = inbound + 1
    /\ UNCHANGED <<checkpoint, result>>
    /\ ChatFrame

\* routers/whatsapp.py handle_incoming_message up to graph.invoke.  The
\* handler is a coroutine of the server's event loop and process_message is
\* a plain blocking call in it (line 137): from the test of active_interrupts
\* to the bookkeeping of handle_chat_result no other handler runs, so a
\* handler starts only when no call is in progress.
HandleIncoming(t, text) ==
    /\ run.pc = "idle"
    /\ inbound < MaxInbound
    /\ LET is_resuming == t \in active_interrupts
       IN  /\ active_interrupts' = active_interrupts \ {t}
           /\ run' = [Idle EXCEPT
                  !.pc = "invoke", !.thread = t, !.message = text,
                  !.is_resuming = is_resuming,
                  !.prevStatus = result[t].status,
                  !.input = process_message_input(text, is_resuming, FALSE)]
    /\ inbound' = inbound + 1
    /\ UNCHANGED <<checkpoint, result>>
    /\ ChatFrame

\* graph.invoke: the input is applied and checkpointed
GraphFirst ==
    /\ run.pc = "invoke"
    /\ LET first == InvokeFirst(checkpoint[run.thread], run.input)
       IN  /\ checkpoint' = [checkpoint EXCEPT ![run.thread] = first.state]
           /\ run' = [run EXCEPT !.pc = "loop", !.resume = first.resume,
                                 !.start = CHOOSE n \in first.state.next : TRUE]
    /\ UNCHANGED <<active_interrupts, result, inbound>>
    /\ ChatFrame

\* one super-step: the pending node runs, its Command is merged, the record
\* is checkpointed
Step(cmd, raising) ==
    /\ ~OutOfSteps(run.count)
    /\ checkpoint' = [checkpoint EXCEPT ![run.thread] = AfterNode(cmd)]
    /\ run' = [run EXCEPT
           !.count = @ + 1,
           !.resume = NoResume,
           !.raised = @ \cup raising,
           !.pc = IF cmd.kind = "interrupt" \/ cmd.goto = "END" THEN "returned" ELSE "loop"]
    /\ UNCHANGED <<active_interrupts, result, inbound>>
    /\ ChatFrame

StepSupervisor ==
    /\ run.pc = "loop"
    /\ "intelligent_supervisor" \in checkpoint[run.thread].next
    /\ \E ok \in BOOLEAN, found \in ExtractChoices :
           Step(intelligent_supervisor_node(checkpoint[run.thread], ok, found),
                IF ok THEN {} ELSE {"intelligent_supervisor"})

StepAgent ==
    /\ run.pc = "loop"
    /\ \E node \in AgentNodes \cap checkpoint[run.thread].next :
       \E ok \in BOOLEAN, found \in ExtractChoices :
           Step(enhanced_agent_node(node, checkpoint[run.thread], ok, found),
                IF ok THEN {} ELSE {node})

StepHumanFeedback ==
    /\ run.pc = "loop"
    /\ "enhanced_human_feedback" \in checkpoint[run.thread].next
    /\ Step(enhanced_human_feedback_node(checkpoint[run.thread], run.resume), {})

\* graph.invoke raises: the checkpoint store fails
InvokeRaises ==
    /\ run.pc \in {"invoke", "loop"}
    /\ run' = [run EXCEPT !.pc = "raised"]
    /\ UNCHANGED <<checkpoint, active_interrupts, result, inbound>>
    /\ ChatFrame

\* process_message returns and handle_chat_result acts on the result
HandleChatResult ==
    /\ run.pc \in {"returned", "raised"}
    /\ ~run.reset_thread
    /\ LET res == IF run.pc = "raised" THEN process_message_error
                  ELSE process_message_result(checkpoint[run.thread])
       IN  /\ result' = [result EXCEPT ![run.thread] = ResultDict(run.thread, res)]
           /\ active_interrupts' = handle_chat_result(active_interrupts, run.thread, res)
    /\ run' = Idle
    /\ UNCHANGED <<checkpoint, inbound>>
    /\ ChatFrame

InitChat ==
    /\ checkpoint = [t \in Threads |-> EmptyRecord]
    /\ active_interrupts = {}
    /\ run = Idle
    /\ result = [t \in Threads |-> NoResult]
    /\ inbound = 0

Next ==
    \/ \E t \in Threads, text \in UserTexts : HandleIncoming(t, text)
    \/ GraphFirst
    \/ StepSupervisor
    \/ StepAgent
    \/ StepHumanFeedback
    \/ InvokeRaises
    \/ HandleChatResult

\* process_message(message, thread_id, reset_thread=True), called directly
\* (test_fixed_supervisor.py): the adapter is not involved
ProcessMessageReset(t, text) ==
    /\ run.pc = "idle"
    /\ inbound < MaxInbound
    /\ run' = [Idle EXCEPT
           !.pc = "invoke", !.thread = t, !.message = text,
           !.reset_thread = TRUE,
           !.prevStatus = result[t].status,
           !.input = process_message_input(text, FALSE, TRUE)]
    /\ inbound' = inbound + 1
    /\ UNCHANGED <<checkpoint, active_interrupts, result>>
    /\ ChatFrame

\* the direct call returns its result dict to its caller
ProcessMessageResetReturns ==
    /\ run.pc \in {"returned", "raised"}
    /\ run.reset_thread
    /\ result' = [result EXCEPT ![run.thread] = ResultDict(run.thread,
           IF run.pc = "raised" THEN process_message_error
           ELSE process_message_result(checkpoint[run.thread]))]
    /\ run' = Idle
    /\ UNCHANGED <<checkpoint, active_interrupts, inbound>>
    /\ ChatFrame

\* chat_service.py process_message, lines 170-173: graph.invoke returned but
\* the read of the thread's latest checkpoint gives nothing; the call returns
\* there and handle_chat_result takes its last branch (whatsapp.py 227-233)
CheckpointNotFound ==
    /\ run.pc = "returned"
    /\ ~run.reset_thread
    /\ result' = [result EXCEPT ![run.thread] = process_message_no_checkpoint]
    /\ active_interrupts' =
           handle_chat_result(active_interrupts, run.thread, process_message_no_checkpoint)
    /\ run' = Idle
    /\ UNCHANGED <<checkpoint, inbound>>
    /\ ChatFrame

NextResult ==
    \/ Next
    \/ CheckpointNotFound

NextReset ==
    \/ Next
    \/ \E t \in Threads, text \in UserTexts : ProcessMessageReset(t, text)
    \/ ProcessMessageResetReturns

\* the server process is killed and started again between two messages:
\* the module-level dict active_interrupts (whatsapp.py line 25) starts
\* empty, the checkpoint store keeps what it holds
ProcessRestart ==
    /\ run.pc = "idle"
    /\ active_interrupts # {}
    /\ active_interrupts' = {}
    /\ UNCHANGED <<checkpoint, run, result, inbound>>
    /\ ChatFrame

NextRestart ==
    \/ Next
    \/ ProcessRestart

(***************************************************************************)
(* The central orchestrator: process_message_with_central_orchestrator     *)
(* and its PostgreSQL retry loops.                                         *)
(***************************************************************************)
\* calls of process_message_with_central_orchestrator in one behaviour
MaxCentralCalls == 2
\* a further call is started on a thread whose history is at most this long
MaxHistory == 2

\* max_retries of process_message_with_central_orchestrator
ProcessMaxRetries == 3
\* create_checkpointer_with_retry(max_retries=2)
CheckpointerMaxRetries == 2
\* max_retries of get_async_postgres_saver
SaverMaxRetries == 3

CentralTexts == {"hola"}
\* what get_business_context gives for the thread, as the node formats it:
\* nothing saved for the thread, or the saved business information
BusinessContexts == {"", " ### CONTEXTO EMPRESARIAL"}

SaverError == "No se pudo conectar a PostgreSQL después de 3 intentos"
RecursionError == "Recursion limit reached without hitting a stop condition"
\* str(e) of the exceptions a failing checkpoint store raises in ainvoke
StoreErrors == {"server closed the connection unexpectedly", "SSL SYSCALL error: EOF detected"}

\* an error test that takes every exception for a connection error
IsConnectionError_anyError(error_msg) == TRUE

\* lines 390-392: the test on error_msg that makes an error a retryable one
IsConnectionError(error_msg) ==
    \/ error_msg = "server closed the connection unexpectedly"   \* both tests
    \/ error_msg = SaverError                                    \* "postgresql"

AIToolCall == [role |-> "ai", content |-> "", id |-> NoId, tool_calls |-> TRUE]
ToolMessage == [role |-> "tool", content |-> "tool_result", id |-> NoId]

HumanCount(msgs) == Cardinality({i \in 1..Len(msgs) : msgs[i].role = "human"})

\* before: the user messages the thread's history held when the call began
CentralIdle ==
    [pc |-> "idle", attempt |-> 0, ck_attempt |-> 0, sv_attempt |-> 0,
     input |-> <<>>, context |-> "", mode |-> "free", steps |-> 0, next |-> "none",
     failures |-> 0, applies |-> 0, before |-> 0, last_error |-> ""]

NoCentralResult == [status |-> "none", response |-> "", error |-> ""]

\* central_orchestrator.py should_continue
should_continue_alwaysEnd(state) == "END"

should_continue(state) ==
    LET last_message == state[Len(state)]
    IN  IF "tool_calls" \in DOMAIN last_message /\ last_message.tool_calls
        THEN "tools"
        ELSE "END"

\* initial_state is built once, before the retry loop, and handed to every
\* attempt: the reducer writes the id it assigns into that very message
InitialStateAfterInvoke_rebuilt(left, input) == input

InitialStateAfterInvoke(left, input) ==
    [i \in 1..Len(input) |-> AssignId(add_messages(left, SubSeq(input, 1, i - 1)), input[i])]

\* central_orchestrator_node, lines 88-94: the business context is added to
\* the content of the last message, the very object the state holds
WithBusinessContext(msgs, context) ==
    IF context # "" /\ msgs # <<>> /\ msgs[Len(msgs)].role = "human"
    THEN [msgs EXCEPT ![Len(msgs)].content = @ \o context]
    ELSE msgs

\* central_orchestrator_node: the state after the node's update is merged
central_orchestrator_node(msgs, context, tool_call) ==
    add_messages(WithBusinessContext(msgs, context),
                 <<IF tool_call THEN AIToolCall ELSE AIMessage("llm_answer")>>)

\* lines 385-408 with the loop's continue: what the except branch of
\* attempt c.attempt does with an exception whose text is error_msg
AfterException_unbounded(c, error_msg) ==
    IF IsConnectionError(error_msg)
    THEN [central |-> [c EXCEPT !.pc = "connect", !.attempt = @ + 1,
                                !.ck_attempt = 0, !.sv_attempt = 0,
                                !.failures = @ + 1, !.last_error = error_msg],
          result  |-> NoCentralResult]
    ELSE [central |-> [c EXCEPT !.pc = "idle", !.failures = @ + 1,
                                !.last_error = error_msg],
          result  |-> [status |-> "error", response |-> "problema técnico",
                       error |-> error_msg]]

AfterException(c, error_msg) ==
    IF IsConnectionError(error_msg) /\ c.attempt < ProcessMaxRetries - 1
    THEN [central |-> [c EXCEPT !.pc = "connect", !.attempt = @ + 1,
                                !.ck_attempt = 0, !.sv_attempt = 0,
                                !.failures = @ + 1, !.last_error = error_msg],
          result  |-> NoCentralResult]
    ELSE [central |-> [c EXCEPT !.pc = "idle", !.failures = @ + 1,
                                !.last_error = error_msg],
          result  |-> [status |-> "error", response |-> "problema técnico",
                       error |-> error_msg]]

CentralFrame ==
    UNCHANGED <<chatVars, pymesVars, toolVars, routeVars, memoryVars, retryVars, researchVars>>

\* process_message_with_central_orchestrator is called: lines 343-355
CentralStart(text, context, mode) ==
    /\ central.pc = "idle"
    /\ ccalls < MaxCentralCalls
    /\ Len(cstore) <= MaxHistory
    /\ central' = [CentralIdle EXCEPT
           !.pc = "connect", !.input = <<HumanMessage(text)>>,
           !.context = context, !.mode = mode, !.before = HumanCount(cstore)]
    /\ cresult' = NoCentralResult
    /\ ccalls' = ccalls + 1
    /\ UNCHANGED cstore
    /\ CentralFrame

\* one pass of the loop of get_async_postgres_saver, inside one pass of the
\* loop of create_checkpointer_with_retry(max_retries=2), line 359
SaverConnect(ok) ==
    /\ central.pc = "connect"
    /\ LET c == central
       IN  IF ok
           THEN /\ central' = [c EXCEPT !.pc = "invoke"]
                /\ UNCHANGED cresult
           ELSE IF c.sv_attempt < SaverMaxRetries - 1
           THEN /\ central' = [c EXCEPT !.sv_attempt = @ + 1]
                /\ UNCHANGED cresult
           ELSE IF c.ck_attempt < CheckpointerMaxRetries - 1
           THEN /\ central' = [c EXCEPT !.ck_attempt = @ + 1, !.sv_attempt = 0]
                /\ UNCHANGED cresult
           ELSE /\ central' = AfterException(c, SaverError).central
                /\ cresult' = AfterException(c, SaverError).result
    /\ UNCHANGED <<cstore, ccalls>>
    /\ CentralFrame

\* graph.ainvoke(initial_state), line 367: the input is merged into the
\* thread's state and checkpointed, the run starts at the entry point
CentralFirst ==
    /\ central.pc = "invoke"
    /\ cstore' = add_messages(cstore, central.input)
    /\ central' = [central EXCEPT
           !.pc = "loop", !.steps = 0, !.next = "central_orchestrator",
           !.applies = @ + 1,
           !.input = InitialStateAfterInvoke(cstore, central.input)]
    /\ UNCHANGED <<cresult, ccalls>>
    /\ CentralFrame

\* the node runs; should_continue routes to tools or ends the run, and
\* lines 370-381 build the result of a run that ended
StepOrchestrator(tool_call) ==
    /\ central.pc = "loop"
    /\ central.next = "central_orchestrator"
    /\ ~OutOfSteps(central.steps)
    /\ central.mode = "always_tools" => tool_call
    /\ LET msgs == central_orchestrator_node(cstore, central.context, tool_call)
           to   == should_continue(msgs)
           last == Len(cstore)
       IN  /\ cstore' = msgs
           /\ central' = [central EXCEPT
                  !.steps = @ + 1,
                  !.next = IF to = "tools" THEN "tools" ELSE "none",
                  !.pc = IF to = "tools" THEN "loop" ELSE "idle",
                  !.input = IF last > 0 /\ @ # <<>> /\ cstore[last].id = @[Len(@)].id
                            THEN WithBusinessContext(@, central.context) ELSE @]
           /\ cresult' = IF to = "tools" THEN cresult
                         ELSE [status |-> "completed",
                               response |-> msgs[Len(msgs)].content, error |-> ""]
    /\ UNCHANGED ccalls
    /\ CentralFrame

\* ToolNode(CENTRAL_AGENT_TOOLS), then the edge tools -> central_orchestrator
StepTools ==
    /\ central.pc = "loop"
    /\ central.next = "tools"
    /\ ~OutOfSteps(central.steps)
    /\ cstore' = add_messages(cstore, <<ToolMessage>>)
    /\ central' = [central EXCEPT !.steps = @ + 1, !.next = "central_orchestrator"]
    /\ UNCHANGED <<cresult, ccalls>>
    /\ CentralFrame

\* the executor refuses the next step: GraphRecursionError leaves ainvoke
CentralOutOfSteps ==
    /\ central.pc = "loop"
    /\ OutOfSteps(central.steps)
    /\ central' = AfterException(central, RecursionError).central
    /\ cresult' = AfterException(central, RecursionError).result
    /\ UNCHANGED <<cstore, ccalls>>
    /\ CentralFrame

\* the checkpoint store fails during ainvoke; reached tells whether the
\* input had reached the reducer when the first checkpoint write failed
CentralStoreFails(error_msg, reached) ==
    /\ central.pc \in {"invoke", "loop"}
    /\ LET c == IF central.pc = "invoke" /\ reached
                THEN [central EXCEPT !.input = InitialStateAfterInvoke(cstore, @)]
                ELSE central
       IN  /\ central' = AfterException(c, error_msg).central
           /\ cresult' = AfterException(c, error_msg).result
    /\ UNCHANGED <<cstore, ccalls>>
    /\ CentralFrame

InitCentral ==
    /\ cstore = <<>>
    /\ central = CentralIdle
    /\ cresult = NoCentralResult
    /\ ccalls = 0

NextCentral ==
    \/ \E text \in CentralTexts, context \in BusinessContexts,
          mode \in {"free", "always_tools"} : CentralStart(text, context, mode)
    \/ \E ok \in BOOLEAN : SaverConnect(ok)
    \/ CentralFirst
    \/ \E tool_call \in BOOLEAN : StepOrchestrator(tool_call)
    \/ StepTools
    \/ CentralOutOfSteps
    \/ \E error_msg \in StoreErrors, reached \in BOOLEAN :
           CentralStoreFails(error_msg, reached)

(***************************************************************************)
(* The PYMES graph (pymes_graph.py create_pymes_graph) and its nodes.      *)
(* A node gives an outcome: the messages and keys it writes, the targets   *)
(* of its Command, and how it ended: "ok", "interrupt" (a GraphInterrupt   *)
(* left the node) or "raise" (another exception left the node).            *)
(***************************************************************************)
PymesNodes ==
    {"welcome", "extract_business_info", "validate_business_info", "save_to_memory",
     "research_opportunities", "validate_research_results", "generate_response",
     "action", "human_feedback", "end_node"}

\* the order in which the writes of one super-step are applied
NodeOrder ==
    <<"action", "end_node", "extract_business_info", "generate_response",
      "human_feedback", "research_opportunities", "save_to_memory",
      "validate_business_info", "validate_research_results", "welcome">>

NoWrites == [k \in {} |-> ""]

Outcome(kind, msgs, writes, goto, swallowed) ==
    [kind |-> kind, msgs |-> msgs, writes |-> writes, goto |-> goto,
     swallowed |-> swallowed]

\* pymes_graph.py welcome_node
welcome_node(state) ==
    IF state.info = "complete"
    THEN Outcome("ok", <<AIMessage("welcome back")>>, "stage" :> "conversation", {}, FALSE)
    ELSE Outcome("ok", <<AIMessage("welcome")>>, "stage" :> "info_gathering", {}, FALSE)

\* business_info_extraction.py validate_business_info_node.  interrupt()
\* raises GraphInterrupt when the executor has no resume value for it; the
\* call is inside the node's try block and GraphInterrupt is an Exception,
\* so the except branch handles it.
validate_business_info_node(state, resume) ==
    IF resume = NoResume
    THEN Outcome("ok", <<AIMessage("Hubo un error en la validación.")>>, NoWrites,
                 {"validate_business_info"}, TRUE)
    ELSE LET user_response == Strip(Lower(resume))
         IN  IF user_response \in {"sí", "si", "yes", "correcto", "ok", "está bien"}
             THEN Outcome("ok", <<AIMessage("¡Perfecto!")>>, "stage" :> "analysis",
                          {"research_subgraph"}, FALSE)
             ELSE IF AnyKeyword(user_response, {"corregir", "cambiar"})
             THEN Outcome("ok", <<HumanMessage(resume)>>, NoWrites,
                          {"extract_business_info"}, FALSE)
             ELSE Outcome("ok", <<AIMessage("No entendí tu respuesta.")>>, NoWrites,
                          {"validate_business_info"}, FALSE)

\* business_info_extraction.py extract_business_info_node; ok is FALSE when
\* the LLM chain raises, found is TRUE when the user's answer (the last
\* message, if it is the user's) brings the last missing field
extract_business_info_node(state, resume, ok, found) ==
    IF state.info = "complete"
    THEN validate_business_info_node(state, resume)
    ELSE IF ok
    THEN LET msgs == state.messages
             info == IF Len(msgs) > 1 /\ msgs[Len(msgs)].role = "human" /\ found
                     THEN "complete" ELSE state.info
         IN  Outcome("ok", <<AIMessage("next question")>>,
                     ("stage" :> "info_gathering") @@ ("info" :> info), {}, FALSE)
    ELSE Outcome("ok", <<AIMessage("Disculpa, hubo un error. ¿Podrías repetir tu respuesta?")>>,
                 NoWrites, {}, FALSE)

\* business_info_extraction.py save_to_long_term_memory
save_to_long_term_memory(state, ok) ==
    Outcome("ok", <<>>, "stage" :> (IF ok THEN "info_completed" ELSE "error"), {}, FALSE)

\* research_subgraph.py research_opportunities_node
research_opportunities_node(state, ok) ==
    IF state.info = "empty" \/ ~ok
    THEN Outcome("ok", <<AIMessage("research error")>>, "stage" :> "error", {}, FALSE)
    ELSE Outcome("ok", <<AIMessage("research done")>>, "stage" :> "research_completed",
                 {}, FALSE)

\* research_subgraph.py validate_research_results_node: interrupt() inside
\* the try block, as in validate_business_info_node
validate_research_results_node(state, resume) ==
    IF resume = NoResume
    THEN Outcome("ok", <<AIMessage("Hubo un error validando los resultados.")>>, NoWrites,
                 {"validate_research_results"}, TRUE)
    ELSE LET response_lower == Strip(Lower(resume))
         IN  IF response_lower \in {"sí", "si", "yes", "generar plan", "plan de acción"}
             THEN Outcome("ok", <<HumanMessage(resume)>>, "stage" :> "plan_generation",
                          {"generate_growth_plan"}, FALSE)
             ELSE IF AnyKeyword(response_lower, {"más información", "investigación"})
             THEN Outcome("ok", <<HumanMessage(resume)>>, NoWrites,
                          {"research_opportunities"}, FALSE)
             ELSE Outcome("ok", <<HumanMessage(resume)>>,
                          ("stage" :> "conversation") @@ ("input" :> resume),
                          {"generate_response"}, FALSE)

\* nodes.py generate_response: an exception of the chain is logged and a new
\* exception is raised
generate_response(state, ok, tool_call) ==
    IF state.messages = <<>>
    THEN Outcome("ok", <<AIMessage("greeting")>>, NoWrites, {}, FALSE)
    ELSE IF ~ok
    THEN Outcome("raise", <<>>, NoWrites, {}, FALSE)
    ELSE Outcome("ok", <<IF tool_call THEN AIToolCall ELSE AIMessage("llm_answer")>>,
                 NoWrites, {}, FALSE)

\* ToolNode(tools)
action_node(state) == Outcome("ok", <<ToolMessage>>, NoWrites, {}, FALSE)

human_feedback_words == {"done", "gracias", "adiós", "adios"}

\* nodes.py human_feedback: interrupt() outside any try block
human_feedback(state, resume) ==
    IF resume = NoResume
    THEN Outcome("interrupt", <<>>, NoWrites, {}, FALSE)
    ELSE Outcome("ok", <<HumanMessage(resume)>>, "input" :> resume,
                 IF Lower(Strip(resume)) \in human_feedback_words
                 THEN {"end_node"} ELSE {"generate_response"},
                 FALSE)

\* nodes.py end_node
end_node(state) ==
    Outcome("ok", <<>>, "answer" :> "Gracias por su consulta.", {}, FALSE)

\* the node functions create_pymes_graph registers, lines 173-184
PymesNode(n, state, resume, ch) ==
    CASE n = "welcome"                   -> welcome_node(state)
      [] n = "extract_business_info"     -> extract_business_info_node(state, resume, ch.ok, ch.found)
      [] n = "validate_business_info"    -> validate_business_info_node(state, resume)
      [] n = "save_to_memory"            -> save_to_long_term_memory(state, ch.ok)
      [] n = "research_opportunities"    -> research_opportunities_node(state, ch.ok)
      [] n = "validate_research_results" -> validate_research_results_node(state, resume)
      [] n = "generate_response"         -> generate_response(state, ch.ok, ch.tool_call)
      [] n = "action"                    -> action_node(state)
      [] n = "human_feedback"            -> human_feedback(state, resume)
      [] n = "end_node"                  -> end_node(state)

\* pymes_graph.py determine_initial_flow
determine_initial_flow(state) ==
    IF state.info # "complete" /\ state.stage \in {"info_gathering", "none"}
    THEN "extract_business_info" ELSE "generate_response"

\* pymes_graph.py route_after_extraction
route_after_extraction(state) ==
    IF state.stage = "info_gathering" THEN "validate_business_info"
    ELSE IF state.stage = "research_needed" THEN "research_opportunities"
    ELSE "validate_business_info"

\* pymes_graph.py route_after_validation
route_after_validation(state) ==
    IF state.stage = "analysis" THEN "save_to_memory" ELSE "extract_business_info"

\* pymes_graph.py route_after_memory_save
route_after_memory_save(state) ==
    IF state.stage = "info_completed" THEN "research_opportunities" ELSE "generate_response"

\* pymes_graph.py route_after_research
route_after_research(state) ==
    IF state.stage = "research_completed" THEN "validate_research_results"
    ELSE "generate_response"

\* a routing function that never goes to the tool node
route_conversation_flow_noTools(state) == "human_feedback"

\* pymes_graph.py route_conversation_flow
route_conversation_flow(state) ==
    LET last_message == state.messages[Len(state.messages)]
    IN  IF /\ state.messages # <<>>
           /\ last_message.role = "ai"
           /\ "tool_calls" \in DOMAIN last_message
           /\ last_message.tool_calls
        THEN "action" ELSE "human_feedback"

\* the edges create_pymes_graph adds, lines 189-263: the targets of node n
\* in the state that holds n's own writes; end_node is the finish point
PymesEdges(n, state) ==
    CASE n = "welcome"                   -> {determine_initial_flow(state)}
      [] n = "extract_business_info"     -> {route_after_extraction(state)}
      [] n = "validate_business_info"    -> {route_after_validation(state)}
      [] n = "save_to_memory"            -> {route_after_memory_save(state)}
      [] n = "research_opportunities"    -> {route_after_research(state)}
      [] n = "validate_research_results" -> {"generate_response"}
      [] n = "generate_response"         -> {route_conversation_flow(state)}
      [] n = "action"                    -> {"generate_response"}
      [] n = "human_feedback"            -> {"generate_response"}
      [] n = "end_node"                  -> {}

(***************************************************************************)
(* The executor running the PYMES graph for one thread.                    *)
(***************************************************************************)
\* graph.invoke calls in one behaviour
MaxPymesInvokes == 2

\* failures of the nodes' collaborators (LLM chain, store) in one behaviour
MaxFaults == 1

\* the text of a new turn, and the values a suspended run is resumed with
PymesTexts == {"hola"}
ResumeValues == {"hola", "Done"}

\* what the collaborators of a node do in one super-step: ok is FALSE when
\* the LLM chain or the store raises, tool_call is TRUE when the LLM asks for
\* a tool, found is TRUE when the extraction fills the missing fields; a
\* node draws only the choices its code depends on
Choices(n) ==
    [ok        : IF n \in {"extract_business_info", "save_to_memory",
                           "research_opportunities", "generate_response"}
                 THEN BOOLEAN ELSE {TRUE},
     tool_call : IF n = "generate_response" THEN BOOLEAN ELSE {FALSE},
     found     : IF n = "extract_business_info" THEN BOOLEAN ELSE {FALSE}]

\* one choice for every node of a super-step
StepChoices(nodes) ==
    {ch \in [nodes -> [ok : BOOLEAN, tool_call : BOOLEAN, found : BOOLEAN]] :
        \A n \in nodes : ch[n] \in Choices(n)}

Faults(ch) == Cardinality({n \in DOMAIN ch : ~ch[n].ok})

EmptyState ==
    [messages |-> <<>>, stage |-> "none", info |-> "empty", input |-> "", answer |-> ""]

PymesIdle ==
    [pc |-> "idle", steps |-> 0, resume |-> NoResume, given |-> NoResume,
     swallowed |-> {}, ran |-> {}, faults |-> 0]

NoPymesResult == [status |-> "none", error |-> ""]

\* the state a node's routing functions read: the thread's state with the
\* node's own writes
StateWith(state, out) ==
    [k \in DOMAIN state |->
        IF k = "messages" THEN add_messages(state.messages, out.msgs)
        ELSE IF k \in DOMAIN out.writes THEN out.writes[k]
        ELSE state[k]]

RECURSIVE WrittenMessages(_, _)
\* the messages the nodes of one super-step write, in task order
WrittenMessages(outs, order) ==
    IF order = <<>> THEN <<>>
    ELSE (IF Head(order) \in DOMAIN outs THEN outs[Head(order)].msgs ELSE <<>>)
             \o WrittenMessages(outs, Tail(order))

\* the writes of the nodes of one super-step: the messages go through the
\* reducer in task order, a plain key takes the value of the node writing it
ApplyWrites(state, outs) ==
    [k \in DOMAIN state |->
        IF k = "messages"
        THEN add_messages(state.messages, WrittenMessages(outs, NodeOrder))
        ELSE IF \E n \in DOMAIN outs : k \in DOMAIN outs[n].writes
        THEN outs[CHOOSE n \in DOMAIN outs : k \in DOMAIN outs[n].writes].writes[k]
        ELSE state[k]]

\* two nodes of one super-step write the same plain key: InvalidUpdateError
ConflictingWrites(outs) ==
    \E n, m \in DOMAIN outs :
        n # m /\ (DOMAIN outs[n].writes) \cap (DOMAIN outs[m].writes) # {}

\* the nodes of the next super-step: the targets of each node's Command that
\* are nodes of the graph, and the targets of the node's edges as well
NextNodes(state, outs) ==
    UNION {(outs[n].goto \cap PymesNodes) \cup PymesEdges(n, StateWith(state, outs[n])) :
           n \in DOMAIN outs}

PymesFrame ==
    UNCHANGED <<chatVars, centralVars, toolVars, routeVars, memoryVars, retryVars, researchVars>>

\* graph.invoke(input, config): a state dict starts the run at START and
\* drops what was pending; Command(resume=value) re-enters the nodes that
\* suspended, with value as the result of their interrupt()
PymesInvoke(input) ==
    /\ prun.pc = "idle"
    /\ pcalls < MaxPymesInvokes
    /\ input.kind = "resume" => pthread.pending # {}
    /\ pthread' =
           IF input.kind = "resume" THEN pthread
           ELSE [state |-> [pthread.state EXCEPT
                     !.messages = add_messages(@, <<HumanMessage(input.text)>>),
                     !.info = input.info, !.input = input.text, !.answer = ""],
                 next |-> {"welcome"}, pending |-> {}]
    /\ prun' = [PymesIdle EXCEPT
           !.pc = "loop",
           !.resume = IF input.kind = "resume" THEN input.value ELSE NoResume,
           !.given = IF input.kind = "resume" THEN input.value ELSE NoResume,
           !.faults = prun.faults]
    /\ presult' = NoPymesResult
    /\ pcalls' = pcalls + 1
    /\ PymesFrame

\* one super-step: every node of next runs on the same state; an exception
\* leaving a node ends the run, a GraphInterrupt leaving a node suspends it,
\* otherwise the writes are merged and the next nodes are computed
PymesSuperstep ==
    /\ prun.pc = "loop"
    /\ ~OutOfSteps(prun.steps)
    /\ \E ch \in StepChoices(pthread.next) :
       /\ prun.faults + Faults(ch) <= MaxFaults
       /\ LET state == pthread.state
              outs  == [n \in pthread.next |->
                           PymesNode(n, state,
                                     IF n \in pthread.pending THEN prun.resume ELSE NoResume,
                                     ch[n])]
              raised      == {n \in pthread.next : outs[n].kind = "raise"}
              interrupted == {n \in pthread.next : outs[n].kind = "interrupt"}
              swallowed   == {n \in pthread.next : outs[n].swallowed}
              next        == NextNodes(state, outs)
              r == [prun EXCEPT !.resume = NoResume, !.swallowed = @ \cup swallowed,
                                !.ran = @ \cup pthread.next,
                                !.faults = @ + Faults(ch)]
          IN  IF raised # {} \/ (interrupted = {} /\ ConflictingWrites(outs))
              THEN /\ prun' = [r EXCEPT !.pc = "idle"]
                   /\ presult' = [status |-> "error", error |-> "node exception"]
                   /\ UNCHANGED pthread
              ELSE IF interrupted # {}
              THEN /\ prun' = [r EXCEPT !.pc = "idle"]
                   /\ presult' = [status |-> "interrupted", error |-> ""]
                   /\ pthread' = [pthread EXCEPT !.pending = interrupted]
              ELSE /\ prun' = [r EXCEPT !.steps = @ + 1,
                                        !.pc = IF next = {} THEN "idle" ELSE "loop"]
                   /\ presult' = IF next = {} THEN [status |-> "completed", error |-> ""]
                                 ELSE presult
                   /\ pthread' = [state |-> ApplyWrites(state, outs),
                                  next |-> next, pending |-> {}]
    /\ UNCHANGED pcalls
    /\ PymesFrame

\* the executor refuses the next super-step: GraphRecursionError
PymesOutOfSteps ==
    /\ prun.pc = "loop"
    /\ OutOfSteps(prun.steps)
    /\ prun' = [prun EXCEPT !.pc = "idle"]
    /\ presult' = [status |-> "error", error |-> RecursionError]
    /\ UNCHANGED <<pthread, pcalls>>
    /\ PymesFrame

InitPymes ==
    /\ pthread = [state |-> EmptyState, next |-> {}, pending |-> {}]
    /\ prun = PymesIdle
    /\ presult = NoPymesResult
    /\ pcalls = 0

\* the replies interrupt() can hand to a node that asked the user
UserReplies == ResumeValues \cup {"si", "otra cosa"}

PymesInputs ==
    [kind : {"state"}, text : PymesTexts, info : {"empty", "complete"}]
        \cup [kind : {"resume"}, value : ResumeValues]

NextPymes ==
    \/ \E input \in PymesInputs : PymesInvoke(input)
    \/ PymesSuperstep
    \/ PymesOutOfSteps

(***************************************************************************)
(* The retry loops around the PostgreSQL checkpoint store: the decorator   *)
(* with_retry of postgres.py, get_async_postgres_saver, and the loops of   *)
(* central_orchestrator.py.  A loop is followed by the calls it makes of   *)
(* the function it guards and by the waits it sleeps between them.         *)
(***************************************************************************)
\* the largest max_retries a loop is entered with
MaxRetriesArg == 4

\* the initial delays (seconds) a loop is entered with
Delays == {1, 2}

RetryLoops ==
    {"with_retry", "get_async_postgres_saver", "create_checkpointer_with_retry",
     "process_message_with_central_orchestrator"}

RECURSIVE Pow2(_)
Pow2(n) == IF n <= 0 THEN 1 ELSE 2 * Pow2(n - 1)

RetryIdle ==
    [loop |-> "none", pc |-> "idle", max_retries |-> 0, delay |-> 0,
     calls |-> 0, waits |-> <<>>]

\* postgres.py with_retry, wrapper: one turn of the while loop; ok is FALSE
\* when func raises.  retries counts the calls that raised, and every call
\* but the last one raised
with_retry(r, ok) ==
    LET retries == r.calls
    IN  IF ~(retries < r.max_retries)
        THEN [r EXCEPT !.pc = "RuntimeError"]
        ELSE IF ok
        THEN [r EXCEPT !.pc = "returned", !.calls = @ + 1]
        ELSE LET current_delay == r.delay * Pow2((retries + 1) - 1)
             IN  IF retries + 1 < r.max_retries
                 THEN [r EXCEPT !.calls = @ + 1, !.waits = Append(@, current_delay)]
                 ELSE [r EXCEPT !.calls = @ + 1, !.pc = "raised"]

\* postgres.py get_async_postgres_saver: one turn of the for loop; the
\* function ends without a return statement when the loop makes no turn
get_async_postgres_saver(r, ok) ==
    LET attempt == r.calls
    IN  IF ~(attempt < r.max_retries)
        THEN [r EXCEPT !.pc = "returned None"]
        ELSE IF ok
        THEN [r EXCEPT !.pc = "returned", !.calls = @ + 1]
        ELSE IF attempt < r.max_retries - 1
        THEN [r EXCEPT !.calls = @ + 1, !.waits = Append(@, r.delay * (attempt + 1))]
        ELSE [r EXCEPT !.calls = @ + 1, !.pc = "raised"]

\* central_orchestrator.py create_checkpointer_with_retry: one turn of the
\* for loop
create_checkpointer_with_retry(r, ok) ==
    LET attempt == r.calls
    IN  IF ~(attempt < r.max_retries)
        THEN [r EXCEPT !.pc = "returned None"]
        ELSE IF ok
        THEN [r EXCEPT !.pc = "returned", !.calls = @ + 1]
        ELSE IF attempt < r.max_retries - 1
        THEN [r EXCEPT !.calls = @ + 1, !.waits = Append(@, r.delay * (attempt + 1))]
        ELSE [r EXCEPT !.calls = @ + 1, !.pc = "raised"]

\* central_orchestrator.py process_message_with_central_orchestrator, lines
\* 355-416: one turn of the for loop; connection tells whether the message
\* of the exception names a connection
orchestrator_retry_loop(r, ok, connection) ==
    LET attempt == r.calls
    IN  IF ~(attempt < r.max_retries)
        THEN [r EXCEPT !.pc = "returned error"]
        ELSE IF ok
        THEN [r EXCEPT !.pc = "returned", !.calls = @ + 1]
        ELSE IF connection /\ attempt < r.max_retries - 1
        THEN [r EXCEPT !.calls = @ + 1, !.waits = Append(@, 2 * (attempt + 1))]
        ELSE [r EXCEPT !.calls = @ + 1, !.pc = "returned error"]

RetryFrame ==
    UNCHANGED <<chatVars, centralVars, pymesVars, toolVars, routeVars, memoryVars, researchVars>>

\* a loop is entered; the loop of process_message_with_central_orchestrator
\* has no delay parameter, its waits are multiples of 2.0
RetryEnter(loop, max_retries, delay) ==
    /\ retry.pc # "running"
    /\ loop = "process_message_with_central_orchestrator" => delay = 2
    /\ retry' = [RetryIdle EXCEPT !.loop = loop, !.pc = "running",
                                  !.max_retries = max_retries, !.delay = delay]
    /\ RetryFrame

\* the loop makes its next turn
RetryTurn(ok, connection) ==
    /\ retry.pc = "running"
    /\ retry.loop # "process_message_with_central_orchestrator" => connection
    /\ retry' =
           CASE retry.loop = "with_retry" -> with_retry(retry, ok)
             [] retry.loop = "get_async_postgres_saver" -> get_async_postgres_saver(retry, ok)
             [] retry.loop = "create_checkpointer_with_retry" ->
                    create_checkpointer_with_retry(retry, ok)
             [] retry.loop = "process_message_with_central_orchestrator" ->
                    orchestrator_retry_loop(retry, ok, connection)
    /\ RetryFrame

InitRetry == retry = RetryIdle

NextRetry ==
    \/ \E loop \in RetryLoops, max_retries \in 0..MaxRetriesArg, delay \in Delays :
           RetryEnter(loop, max_retries, delay)
    \/ \E ok \in BOOLEAN, connection \in BOOLEAN : RetryTurn(ok, connection)

(***************************************************************************)
(* The deep-research graph of deep_research_system.py: the planner turns   *)
(* the reply of the LLM into a plan of queries, one worker per query runs  *)
(* in parallel, the synthesizer reduces their results.                     *)
(***************************************************************************)
\* lines in one reply of the LLM
MaxLines == 7

\* a line of text is the sequence of its characters; a letter is "a"
Word(n) == [i \in 1..n |-> "a"]

\* the lines a reply is made of: a query as the prompt asks for it, a
\* numbered query between blanks, a query of ten characters, a rule of
\* dashes
LineTable ==
    { Word(12),
      <<" ", "1", ".", " ">> \o Word(11) \o <<" ">>,
      Word(10),
      <<"-", " ", "-", " ", "-", " ", "-", " ", "-", " ", "-">> }

\* "".split('\n') is [''], the one line of an empty reply
EmptyContent == << <<>> >>

\* what self.llm.invoke gives: a reply, split into its lines, or an exception
LLMResponses ==
    {[ok |-> FALSE, content |-> EmptyContent], [ok |-> TRUE, content |-> EmptyContent]}
        \cup {[ok |-> TRUE, content |-> c] :
                 c \in UNION {[1..n -> LineTable] : n \in 1..MaxLines}}

\* str.lstrip(chars)
RECURSIVE lstrip(_, _)
lstrip(line, chars) ==
    IF line # <<>> /\ Head(line) \in chars THEN lstrip(Tail(line), chars) ELSE line

\* str.rstrip(chars)
RECURSIVE rstrip(_, _)
rstrip(line, chars) ==
    IF line # <<>> /\ line[Len(line)] \in chars
    THEN rstrip(SubSeq(line, 1, Len(line) - 1), chars)
    ELSE line

\* str.strip()
strip(line) == rstrip(lstrip(line, {" "}), {" "})

\* the characters lstrip takes away (deep_research_system.py line 148): the
\* digits but the zero, the dot, the dash, the blank and three bullets,
\* written here by their code points
NumberingChars ==
    {"1", "2", "3", "4", "5", "6", "7", "8", "9", ".", "-", " ", "U+2022", "U+25AA", "U+25AB"}

\* the loop over the lines of the reply (deep_research_system.py 143-150)
RECURSIVE ExtractQueries(_)
ExtractQueries(lines) ==
    IF lines = <<>> THEN <<>>
    ELSE LET line == strip(Head(lines))
             clean_line == lstrip(line, NumberingChars)
         IN  (IF line # <<>> /\ Len(line) > 10 /\ clean_line # <<>>
              THEN <<strip(clean_line)>>
              ELSE <<>>) \o ExtractQueries(Tail(lines))

\* the generic queries that fill a short plan (lines 155-159)
GenericQueries ==
    << <<"oportunidades crecimiento {sector} {ubicacion} 2024">>,
       <<"tendencias consumidor {productos} mercado actual">>,
       <<"estrategias exitosas PYMES {sector} casos estudio">> >>

\* the plan of the except branch (lines 173-178)
FallbackPlan ==
    << <<"oportunidades mercado {sector} {ubicacion}">>,
       <<"tendencias {sector} 2024">>,
       <<"competidores {productos} analisis">>,
       <<"estrategias crecimiento PYMES {sector}">> >>

\* deep_research_system.py DeepResearchPlanner.create_research_plan
create_research_plan(response) ==
    IF ~response.ok THEN FallbackPlan
    ELSE LET extracted == ExtractQueries(response.content)
             queries == IF Len(extracted) < 4
                        THEN extracted \o GenericQueries
                        ELSE extracted
         IN  SubSeq(queries, 1, IF Len(queries) < 6 THEN Len(queries) ELSE 6)

\* what a search can come to: search_web_advanced returns its results,
\* returns its own error entry, or the call of the tool raises
SearchOutcomes == {"success", "error", "raised"}

\* a worker that returns nothing when the call of the tool raises
research_worker_node_dropsError(state, outcome) ==
    [research_results |->
        IF outcome = "raised" THEN <<>>
        ELSE << [query |-> state.query,
                 status |-> IF outcome = "success" THEN "success" ELSE "error"] >>]

\* deep_research_system.py research_worker_node: the update it returns
research_worker_node(state, outcome) ==
    [research_results |->
        << [query |-> state.query,
            status |-> IF outcome = "success" THEN "success" ELSE "error"] >>]

\* deep_research_system.py continue_to_workers: one Send per query
continue_to_workers(state) ==
    [i \in 1..Len(state.research_plan) |->
        [node |-> "research_worker", query |-> state.research_plan[i],
         done |-> FALSE, writes |-> <<>>]]

\* the reducer of research_results (line 27) over the writes of the tasks of
\* one step, in the order of the tasks
RECURSIVE reduce_research_results(_, _)
reduce_research_results(x, tasks) ==
    IF tasks = <<>> THEN x
    ELSE reduce_research_results(x \o Head(tasks).writes, Tail(tasks))

\* deep_research_system.py synthesizer_node: the counts of execution_summary
synthesizer_node(state) ==
    << Cardinality({i \in 1..Len(state.research_results) :
                       state.research_results[i].status = "success"}),
       Len(state.research_results) >>

NoResponse == [ok |-> TRUE, content |-> <<>>]

ResearchIdle ==
    [pc |-> "idle", llm |-> NoResponse, research_plan |-> <<>>, tasks |-> <<>>,
     research_results |-> <<>>, synthesizer_runs |-> 0, execution_summary |-> <<>>]

ResearchFrame ==
    UNCHANGED <<chatVars, centralVars, pymesVars, toolVars, routeVars, memoryVars, retryVars>>

\* the step of the planner
PlannerNode ==
    /\ research.pc = "planner"
    /\ research' = [research EXCEPT !.pc = "planned",
                                    !.research_plan = create_research_plan(research.llm)]
    /\ ResearchFrame

\* the conditional edge after the planner hands one task per query to the
\* next step
ContinueToWorkers ==
    /\ research.pc = "planned"
    /\ research' = [research EXCEPT !.pc = "workers", !.llm = NoResponse,
                                    !.tasks = continue_to_workers(research)]
    /\ ResearchFrame

\* one worker, any of those still running, finishes
ResearchWorkerNode(i, outcome) ==
    /\ research.pc = "workers"
    /\ i \in DOMAIN research.tasks
    /\ ~research.tasks[i].done
    /\ research' =
           [research EXCEPT
               !.tasks[i].done = TRUE,
               !.tasks[i].writes =
                   research_worker_node([query |-> research.tasks[i].query],
                                        outcome).research_results]
    /\ ResearchFrame

\* the step of the workers ends when all its tasks have finished: their
\* writes are reduced into the state, the edge research_worker ->
\* synthesizer makes the synthesizer the next step
WorkersStepEnds ==
    /\ research.pc = "workers"
    /\ \A i \in DOMAIN research.tasks : research.tasks[i].done
    /\ research' =
           [research EXCEPT
               !.pc = IF research.tasks = <<>> THEN "END" ELSE "synthesizer",
               !.research_results = reduce_research_results(@, research.tasks),
               !.tasks = <<>>]
    /\ ResearchFrame

\* the step of the synthesizer, and the edge to END
SynthesizerNode ==
    /\ research.pc = "synthesizer"
    /\ research' = [research EXCEPT !.pc = "END",
                                    !.synthesizer_runs = @ + 1,
                                    !.execution_summary = synthesizer_node(research)]
    /\ ResearchFrame

InitResearch == research = ResearchIdle

NextResearch ==
    \/ PlannerNode
    \/ ContinueToWorkers
    \/ \E i \in 1..6, outcome \in SearchOutcomes : ResearchWorkerNode(i, outcome)
    \/ WorkersStepEnds
    \/ SynthesizerNode

(***************************************************************************)
(* Specifications.                                                         *)
(***************************************************************************)
(***************************************************************************)
(* The agent <-> tools loop with its tool calls: the ToolNode of the       *)
(* central orchestrator graph over CENTRAL_AGENT_TOOLS, and the ReAct      *)
(* agents of enhanced_agents.py over the handoff tools.                    *)
(***************************************************************************)
\* tool calls the LLM asks for in one run, all its messages together
MaxCalls == 2

None == "<None>"

\* the fields of business_info the model follows
ModelledFields == {"nombre_empresa", "ubicacion"}

IsMissing(info, field) == info[field] \in {None, ""}

\* central_agent_tools.py CENTRAL_AGENT_TOOLS
CENTRAL_AGENT_TOOLS ==
    {"update_business_info", "perform_market_research",
     "provide_business_consultation", "check_business_info_completeness"}

\* handoff_system.py: the tools made by create_handoff_tool and, of those
\* made by create_task_handoff_tool, the one the agents are given
TransferTools ==
    {"transfer_to_research_router", "transfer_to_conversational_agent",
     "transfer_to_researcher", "transfer_to_info_completion_agent"}
TaskTools == {"assign_task_to_researcher"}

\* handoff_system.py get_handoff_tools_for_agent
get_handoff_tools_for_agent(agent_name) ==
    CASE agent_name = "info_completion_agent" ->
             {"transfer_to_research_router", "transfer_to_conversational_agent",
              "assign_task_to_researcher"}
      [] agent_name = "research_router" ->
             {"transfer_to_researcher", "transfer_to_conversational_agent",
              "assign_task_to_researcher"}
      [] agent_name = "conversational_agent" ->
             {"transfer_to_researcher", "transfer_to_info_completion_agent",
              "assign_task_to_researcher"}
      [] OTHER -> TransferTools \cup TaskTools

\* the agent_name a handoff tool was created for
HandoffTarget(name) ==
    CASE name = "transfer_to_research_router"       -> "research_router"
      [] name = "transfer_to_conversational_agent"  -> "conversational_agent"
      [] name = "transfer_to_researcher"            -> "researcher"
      [] name = "transfer_to_info_completion_agent" -> "info_completion_agent"
      [] name = "assign_task_to_researcher"         -> "researcher"

\* the graphs of the loop: the central orchestrator and the ReAct agents
\* nodes.py tools: the tools of the PYMES graph's action node
tools == {"search", "search_documents"}

ToolGraphs ==
    {"central", "pymes", "info_completion_agent", "research_router", "conversational_agent"}

ToolsOf(graph) ==
    IF graph = "central" THEN CENTRAL_AGENT_TOOLS
    ELSE IF graph = "pymes" THEN tools
    ELSE get_handoff_tools_for_agent(graph)

\* the arguments the LLM gives to update_business_info: a value for one
\* field (an empty string is a value), or no field at all
NoArgs == [f \in ModelledFields |-> None]
UpdateArgs ==
    {NoArgs} \cup {[NoArgs EXCEPT ![f] = v] : f \in ModelledFields, v \in {"", "Lima"}}

ArgsOf(name) == IF name = "update_business_info" THEN UpdateArgs ELSE {NoArgs}

ToolCall(name, id, args) == [name |-> name, id |-> id, args |-> args]

AIMessageWithCalls(calls) ==
    [role |-> "ai", content |-> "", id |-> NoId,
     tool_calls |-> calls # <<>>, calls |-> calls]

ToolResult(content, tool_call_id) ==
    [role |-> "tool", content |-> content, id |-> NoId, tool_call_id |-> tool_call_id]

\* what a tool gives back: a value the ToolNode wraps, or a Command
Value(content) == [kind |-> "value", content |-> content]
ToolCommand(update, goto, graph) ==
    [kind |-> "command", update |-> update, goto |-> goto, graph |-> graph]

\* central_agent_tools.py update_business_info; ok is FALSE when the body
\* raises into its except branch
update_business_info(state, tool_call_id, args, ok) ==
    IF ok
    THEN LET updated_info ==
                 [f \in ModelledFields |->
                     IF args[f] # None THEN args[f] ELSE state.business_info[f]]
             updates_made == {f \in ModelledFields : args[f] # None}
         IN  ToolCommand([business_info |-> updated_info,
                          messages |-> <<ToolResult(
                              IF updates_made = {} THEN "success=True nothing to update"
                              ELSE "success=True updated", tool_call_id)>>],
                         "none", "none")
    ELSE ToolCommand([business_info |-> state.business_info,
                      messages |-> <<ToolResult("success=False", tool_call_id)>>],
                     "none", "none")

\* a market research that reports success when its body has raised
perform_market_research_hidesFailure(state, ok) ==
    IF \E f \in ModelledFields : IsMissing(state.business_info, f)
    THEN Value("success=False Falta información")
    ELSE Value("success=True Análisis de mercado")

\* central_agent_tools.py perform_market_research
perform_market_research(state, ok) ==
    IF ~ok THEN Value("success=False Hubo un error realizando la investigación.")
    ELSE IF \E f \in ModelledFields : IsMissing(state.business_info, f)
    THEN Value("success=False Falta información")
    ELSE Value("success=True Análisis de mercado")

\* nodes.py search; ok is FALSE when the Tavily call raises
search(ok) ==
    IF ok THEN Value("Resultados de la búsqueda web")
    ELSE Value("Se produjo un error al intentar realizar la búsqueda web")

\* nodes.py search_documents
search_documents(ok) ==
    IF ok THEN Value("Documento 1") ELSE Value("Error al buscar documentos.")

\* the text each tool returns when its body has raised
FailureTexts ==
    {"success=False", "success=False Hubo un error realizando la investigación.",
     "Hubo un error procesando tu consulta.",
     "Se produjo un error al intentar realizar la búsqueda web",
     "Error al buscar documentos."}

\* central_agent_tools.py provide_business_consultation
provide_business_consultation(state, ok) ==
    IF ok THEN Value("consultation_response")
    ELSE Value("Hubo un error procesando tu consulta.")

\* central_agent_tools.py check_business_info_completeness
check_business_info_completeness(state) ==
    IF \E f \in ModelledFields : IsMissing(state.business_info, f)
    THEN Value("status incomplete") ELSE Value("status complete")

\* handoff_system.py create_handoff_tool: the tool made for agent_name
handoff_tool(agent_name, state, tool_call_id) ==
    ToolCommand([messages |-> state.messages \o
                     <<ToolResult("Transferido exitosamente", tool_call_id)>>],
                agent_name, "PARENT")

\* handoff_system.py create_task_handoff_tool: the tool made for agent_name;
\* the Command sends agent_input to the agent
task_handoff_tool(agent_name, task_description, state, tool_call_id) ==
    LET task_message == [role |-> "user", content |-> task_description, id |-> NoId]
        agent_input ==
            [f \in DOMAIN state \cup {"messages", "assigned_task", "requesting_agent"} |->
                CASE f = "messages"         -> <<task_message>>
                  [] f = "assigned_task"    -> task_description
                  [] f = "requesting_agent" -> "supervisor"
                  [] OTHER                  -> state[f]]
    IN  [kind |-> "command", update |-> [messages |-> <<>>], goto |-> agent_name,
         graph |-> "PARENT", send |-> agent_input]

\* the tool a call names, run on the state with the call's id
RunTool(call, state, ok) ==
    CASE call.name = "update_business_info" ->
             update_business_info(state, call.id, call.args, ok)
      [] call.name = "perform_market_research" -> perform_market_research(state, ok)
      [] call.name = "provide_business_consultation" ->
             provide_business_consultation(state, ok)
      [] call.name = "check_business_info_completeness" ->
             check_business_info_completeness(state)
      [] call.name = "search" -> search(ok)
      [] call.name = "search_documents" -> search_documents(ok)
      [] call.name \in TransferTools ->
             handoff_tool(HandoffTarget(call.name), state, call.id)
      [] call.name \in TaskTools ->
             task_handoff_tool(HandoffTarget(call.name), "tarea", state, call.id)

\* the tools whose body calls a collaborator that can fail
FallibleTools ==
    {"update_business_info", "perform_market_research", "provide_business_consultation",
     "search", "search_documents"}

\* ToolNode on the calls of the last message: every tool runs on the state
\* the node was given; a value becomes a ToolMessage with the call's id, a
\* Command is passed on as it is
ToolNode(calls, state, oks) ==
    [i \in 1..Len(calls) |->
        LET out == RunTool(calls[i], state, oks[i])
        IN  IF out.kind = "value"
            THEN ToolCommand([messages |-> <<ToolResult(out.content, calls[i].id)>>],
                             "none", "none")
            ELSE out]

\* the messages the outputs of a ToolNode write, in call order
RECURSIVE ToolMessages(_)
ToolMessages(outs) ==
    IF outs = <<>> THEN <<>>
    ELSE Head(outs).update.messages \o ToolMessages(Tail(outs))

\* the Commands that write business_info, a key without reducer
InfoWriters(outs) == {i \in 1..Len(outs) : "business_info" \in DOMAIN outs[i].update}

\* business_info after the step: the value of the Command that writes it
WrittenInfo(outs, info) ==
    IF InfoWriters(outs) = {} THEN info
    ELSE outs[CHOOSE i \in InfoWriters(outs) : TRUE].update.business_info

NoToolCommand == [kind |-> "none"]

EmptyToolState == [messages |-> <<>>, business_info |-> NoArgs]

\* entry is the state record the graph was invoked with, active the node the
\* enclosing node function names when it returns
ToolIdle ==
    [pc |-> "idle", graph |-> "none", issued |-> 0,
     command |-> NoToolCommand, calls |-> <<>>, oks |-> <<>>,
     entry |-> EmptyToolState, active |-> "none"]

ToolFrame ==
    UNCHANGED <<chatVars, centralVars, pymesVars, routeVars, memoryVars, retryVars, researchVars>>

\* the graph is invoked with a user message on a thread whose business_info
\* holds what earlier turns saved
ToolsStart(graph, info) ==
    /\ trun.pc = "idle"
    /\ tstate' = [messages |-> add_messages(<<>>, <<HumanMessage("hola")>>),
                  business_info |-> info]
    /\ trun' = [ToolIdle EXCEPT !.pc = "agent", !.graph = graph, !.entry = tstate']
    /\ ToolFrame

\* the sequences of at most n calls over the tools of a graph, with ids
\* first+1, first+2, ...
RECURSIVE CallSeqs(_, _, _)
CallSeqs(graph, first, n) ==
    IF n = 0 THEN {<<>>}
    ELSE {<<>>} \cup
         {<<ToolCall(name, first + 1, args)>> \o rest :
              name \in ToolsOf(graph), args \in UNION {ArgsOf(nm) : nm \in ToolsOf(graph)},
              rest \in CallSeqs(graph, first + 1, n - 1)}

WellFormed(calls) == \A i \in 1..Len(calls) : calls[i].args \in ArgsOf(calls[i].name)

\* the agent node: the LLM returns a message with calls; should_continue
\* routes to the tool node when it carries calls and ends the run otherwise
AgentStep(calls) ==
    /\ trun.pc = "agent"
    /\ WellFormed(calls)
    /\ LET msgs == add_messages(tstate.messages, <<AIMessageWithCalls(calls)>>)
       IN  /\ tstate' = [tstate EXCEPT !.messages = msgs]
           /\ trun' = [trun EXCEPT
                  !.pc = IF should_continue(msgs) = "tools" THEN "tools" ELSE "END",
                  !.issued = @ + Len(calls),
                  !.calls = calls]
    /\ ToolFrame

\* the tool node: the tools run, their updates are merged, and the edge
\* tools -> agent is followed; a Command for the parent graph leaves the
\* graph as a ParentCommand and nothing of the step is written; two values
\* for a key without reducer in one step are an InvalidUpdateError
ToolsStep(oks) ==
    /\ trun.pc = "tools"
    /\ \A i \in 1..Len(trun.calls) : trun.calls[i].name \notin FallibleTools => oks[i]
    /\ LET outs == ToolNode(trun.calls, tstate, oks)
           parent == {i \in 1..Len(outs) : outs[i].graph = "PARENT"}
       IN  IF parent # {}
           THEN /\ trun' = [trun EXCEPT
                       !.pc = "parent_command", !.oks = oks,
                       !.command = outs[CHOOSE i \in parent : \A j \in parent : i <= j]]
                /\ UNCHANGED tstate
           ELSE IF Cardinality(InfoWriters(outs)) > 1
           THEN /\ trun' = [trun EXCEPT !.pc = "error", !.oks = oks]
                /\ UNCHANGED tstate
           ELSE /\ tstate' = [tstate EXCEPT
                       !.messages = add_messages(@, ToolMessages(outs)),
                       !.business_info = WrittenInfo(outs, @)]
                /\ trun' = [trun EXCEPT !.pc = "agent", !.oks = oks]
    /\ ToolFrame

\* the business_info a thread holds, or extract_info gives
StartInfos == {NoArgs, [f \in ModelledFields |-> "Pollería Jhony"]}

\* enhanced_agents.py enhanced_*_node around agent.invoke(state): the Command
\* the node function returns. invoked is "END" when the agent returned its
\* state (agent_result), anything else when invoke raised, a ParentCommand of a
\* handoff tool included; updated_info is what extract_info gives the
\* information node (the old value when it raises)
enhanced_node_around_agent(node, state, invoked, agent_result, updated_info) ==
    IF invoked = "END"
    THEN ToolCommand([messages |-> agent_result.messages,
                      business_info |-> IF node = "info_completion_agent"
                                        THEN updated_info ELSE agent_result.business_info],
                     "enhanced_human_feedback", "none")
    ELSE ToolCommand([messages |-> <<AIMessage(FallbackMessage(node))>>],
                     "enhanced_human_feedback", "none")

\* a Command's update merged into the state record: messages through
\* add_messages, any other key replaced
MergePatch(state, update) ==
    [f \in DOMAIN state |->
        IF f \notin DOMAIN update THEN state[f]
        ELSE IF f = "messages" THEN add_messages(state.messages, update.messages)
        ELSE update[f]]

\* the node function of an agent of enhanced_agents.py returns: its Command
\* is merged into the record the node ran on (tstate from here on) and names
\* the next active node
EnhancedNodeReturns(updated_info) ==
    /\ trun.graph \in AgentNodes
    /\ trun.pc \in {"END", "parent_command", "error"}
    /\ \/ updated_info = trun.entry.business_info
       \/ trun.graph = "info_completion_agent" /\ updated_info # NoArgs
    /\ LET cmd == enhanced_node_around_agent(trun.graph, trun.entry, trun.pc,
                                             tstate, updated_info)
       IN  /\ tstate' = MergePatch(trun.entry, cmd.update)
           /\ trun' = [trun EXCEPT !.pc = "returned", !.active = cmd.goto]
    /\ ToolFrame

InitTools ==
    /\ tstate = EmptyToolState
    /\ trun = ToolIdle


NextTools ==
    \/ \E graph \in ToolGraphs, info \in StartInfos : ToolsStart(graph, info)
    \/ \E calls \in CallSeqs(trun.graph, trun.issued, MaxCalls - trun.issued) : AgentStep(calls)
    \/ \E oks \in [1..Len(trun.calls) -> BOOLEAN] : ToolsStep(oks)
    \/ \E updated_info \in StartInfos : EnhancedNodeReturns(updated_info)

(***************************************************************************)
(* Routing functions applied to a state record: the supervisor of          *)
(* handoff_system.py, the router of intelligent_routing.py and the edge    *)
(* functions of pymes_graph.py.                                            *)
(***************************************************************************)
RoutingTexts ==
    {"hola", " DONE ", "investiga el mercado", "quiero cambiar",
     "investiga y dime qué opinas", "mejor dicho investiga"}

RoutingStages == {"none", "info_gathering", "research_needed", "analysis",
                  "info_completed", "research_completed"}

\* the state records the routing functions are applied to
RoutingStates ==
    {[messages |-> msgs, business_info |-> bi, stage |-> st,
      info |-> IF bi = CriticalFields THEN "complete" ELSE "empty",
      current_agent |-> "none", next |-> {}, interrupt |-> NoInterrupt] :
        msgs \in {<<[HumanMessage(text) EXCEPT !.id = 1]>> : text \in RoutingTexts} \cup
                 {<<[HumanMessage("hola") EXCEPT !.id = 1], [AIMessage("llm_answer") EXCEPT !.id = 2],
                    [HumanMessage(text) EXCEPT !.id = 3]>> : text \in RoutingTexts},
        bi \in ExtractChoices,
        st \in RoutingStages}

\* what a call of the LLM with structured output gives: a value, or it raises
Raises == [kind |-> "raises"]
Gives(value) == [kind |-> "gives", value |-> value]

UserIntents ==
    [wants_research : BOOLEAN, wants_more_info_gathering : BOOLEAN,
     wants_conversation : BOOLEAN, wants_to_change_info : BOOLEAN]

\* intelligent_routing.py evaluate_business_info_completeness
evaluate_business_info_completeness(state, llm) ==
    IF llm.kind = "gives"
    THEN [can_start_research |-> llm.value]
    ELSE [can_start_research |-> CriticalFields \ state.business_info = {}]

\* intelligent_routing.py detect_user_intent
detect_user_intent(state, user_message, llm) ==
    IF llm.kind = "gives"
    THEN llm.value
    ELSE LET wants_research ==
                 AnyKeyword(Lower(user_message),
                            {"investiga", "analiza", "oportunidades", "mercado",
                             "competencia", "crecimiento"})
         IN  [wants_research |-> wants_research,
              wants_more_info_gathering |-> ~wants_research,
              wants_conversation |-> FALSE,
              wants_to_change_info |-> FALSE]

\* intelligent_routing.py intelligent_router_node, lines 243-305: the tests
\* of the routing chain with their targets, in the order of the code
RouterPredicates(completeness, intent) ==
    <<[holds  |-> intent.wants_to_change_info, target |-> "info_completion"],
      [holds  |-> intent.wants_research /\ completeness.can_start_research,
       target |-> "research_router"],
      [holds  |-> intent.wants_research, target |-> "info_completion"],
      [holds  |-> intent.wants_conversation, target |-> "conversational"],
      [holds  |-> ~completeness.can_start_research, target |-> "info_completion"],
      [holds  |-> /\ completeness.can_start_research
                  /\ ~intent.wants_research /\ ~intent.wants_conversation,
       target |-> "research_router"]>>

\* intelligent_routing.py intelligent_router_node: the current_agent it
\* writes; ok is FALSE when the body raises into its except branch
intelligent_router_node(state, completeness_llm, intent_llm, ok) ==
    LET user_message == LastContent(state.messages, "human", "")
        completeness == evaluate_business_info_completeness(state, completeness_llm)
        intent       == detect_user_intent(state, user_message, intent_llm)
    IN  IF ~ok THEN "info_completion"
        ELSE IF intent.wants_to_change_info THEN "info_completion"
        ELSE IF intent.wants_research
        THEN IF completeness.can_start_research THEN "research_router"
             ELSE "info_completion"
        ELSE IF intent.wants_conversation THEN "conversational"
        ELSE IF ~completeness.can_start_research THEN "info_completion"
        ELSE IF /\ completeness.can_start_research
                /\ ~intent.wants_research /\ ~intent.wants_conversation
        THEN "research_router"
        ELSE "info_completion"

\* intelligent_routing.py route_after_intelligent_router
route_after_intelligent_router(state) ==
    CASE state.current_agent = "info_completion" -> "info_completion_agent"
      [] state.current_agent = "research_router" -> "research_router"
      [] state.current_agent = "conversational"  -> "conversational_agent"
      [] OTHER                                   -> "info_completion_agent"

NotRouted == [fn |-> "none"]

RouteFrame ==
    UNCHANGED <<chatVars, centralVars, pymesVars, toolVars, memoryVars, retryVars, researchVars>>

\* the supervisor node is run on the state record
RouteSupervisor(ok, found) ==
    /\ routed' = [fn |-> "intelligent_supervisor", ok |-> ok, found |-> found,
                  target |-> intelligent_supervisor_node(rstate, ok, found).goto]
    /\ UNCHANGED rstate
    /\ RouteFrame

\* the router node is run on the state record, then the edge function on
\* the record that holds the node's update
RouteRouter(completeness_llm, intent_llm, ok) ==
    /\ LET current_agent ==
               intelligent_router_node(rstate, completeness_llm, intent_llm, ok)
       IN  routed' = [fn |-> "intelligent_router", ok |-> ok,
                      completeness |-> evaluate_business_info_completeness(rstate, completeness_llm),
                      intent |-> detect_user_intent(
                                     rstate, LastContent(rstate.messages, "human", ""), intent_llm),
                      current_agent |-> current_agent,
                      target |-> route_after_intelligent_router(
                                     [rstate EXCEPT !.current_agent = current_agent])]
    /\ UNCHANGED rstate
    /\ RouteFrame

\* supervisor_architecture.py get_business_info_status_from_state, line 394
required_fields ==
    {"nombre_empresa", "sector", "productos_servicios_principales", "ubicacion"}

\* the business information the supervisor of supervisor_architecture.py is
\* given: the fields of the dict that hold a non-empty value
SupervisorInfos ==
    {{}, {"descripcion_negocio"}, {"nombre_empresa", "sector"}, required_fields,
     CriticalFields, required_fields \cup CriticalFields}

\* supervisor_architecture.py get_business_info_status_from_state
get_business_info_status_from_state(state) ==
    LET missing_fields == required_fields \ state.business_info
    IN  IF state.business_info = {} THEN "Not started"
        ELSE IF missing_fields = {} THEN "Complete"
        ELSE IF Cardinality(missing_fields) < Cardinality(required_fields) THEN "Partial"
        ELSE "Missing"

\* supervisor_architecture.py get_research_status_from_state; context and
\* web_search are written together with the stage research_completed
\* (researcher_agent_node)
get_research_status_from_state(state) ==
    IF state.stage = "research_completed" THEN "Completed"
    ELSE IF state.stage = "research_in_progress" THEN "In progress"
    ELSE "Not started"

\* supervisor_architecture.py supervisor_node: the current_agent it writes
supervisor_node(state) ==
    LET business_info_status == get_business_info_status_from_state(state)
        research_status      == get_research_status_from_state(state)
    IN  IF business_info_status \in {"Not started", "Missing", "Partial"}
        THEN "info_extractor"
        ELSE IF business_info_status = "Complete" /\ research_status = "Not started"
        THEN "researcher"
        ELSE "consultant"

\* supervisor_architecture.py route_after_supervisor; the last message is the
\* supervisor's own, which has no tool calls
route_after_supervisor(state) ==
    IF state.current_agent \in {"info_extractor", "researcher", "consultant"}
    THEN state.current_agent
    ELSE "human_feedback"

\* the supervisor node of supervisor_architecture.py is run on the state
\* record holding business_info, then its edge function on the record that
\* holds the node's update
RouteSupervisorNode(business_info) ==
    /\ LET state == [rstate EXCEPT !.business_info = business_info]
       IN  routed' = [fn |-> "supervisor", business_info |-> business_info,
                      target |-> route_after_supervisor(
                                     [state EXCEPT !.current_agent = supervisor_node(state)])]
    /\ UNCHANGED rstate
    /\ RouteFrame

PymesRoutingFunctions ==
    {"determine_initial_flow", "route_after_extraction", "route_after_validation",
     "route_after_memory_save", "route_after_research", "route_conversation_flow"}

\* an edge function of the PYMES graph is applied to the state record
RoutePymes(fn) ==
    /\ routed' = [fn |-> fn,
                  target |->
                      CASE fn = "determine_initial_flow"  -> determine_initial_flow(rstate)
                        [] fn = "route_after_extraction"  -> route_after_extraction(rstate)
                        [] fn = "route_after_validation"  -> route_after_validation(rstate)
                        [] fn = "route_after_memory_save" -> route_after_memory_save(rstate)
                        [] fn = "route_after_research"    -> route_after_research(rstate)
                        [] fn = "route_conversation_flow" -> route_conversation_flow(rstate)]
    /\ UNCHANGED rstate
    /\ RouteFrame

\* the nodes of the PYMES graph that ask the user to confirm with interrupt()
ValidationNodes == {"validate_business_info", "validate_research_results"}

\* a validation node is run on the state record with reply as the value its
\* interrupt() returns; the executor then merges the node's Command, takes
\* the Command's targets and the node's edges, and enters the node again
\* (reentry) when it is among them, this time with no value to return
ResumeValidation(n, reply) ==
    /\ LET ch    == [ok |-> TRUE, tool_call |-> FALSE, found |-> FALSE]
           out   == PymesNode(n, rstate, reply, ch)
           state == StateWith(rstate, out)
           next  == (out.goto \cap PymesNodes) \cup PymesEdges(n, state)
       IN  routed' = [fn |-> n, reply |-> reply, kind |-> out.kind,
                      goto |-> out.goto, next |-> next,
                      asks |-> LastContent(state.messages, "ai", ""),
                      reentry |-> IF n \in next
                                  THEN PymesNode(n, state, NoResume, ch).kind
                                  ELSE "none"]
    /\ UNCHANGED rstate
    /\ RouteFrame

NextResume ==
    \E n \in ValidationNodes, reply \in UserReplies : ResumeValidation(n, reply)

InitRouting ==
    /\ rstate = CHOOSE st \in RoutingStates : st.stage = "none" /\ st.business_info = {}
    /\ routed = NotRouted

NextRouting ==
    \/ \E ok \in BOOLEAN, found \in ExtractChoices : RouteSupervisor(ok, found)
    \/ \E completeness_llm \in {Raises} \cup {Gives(b) : b \in BOOLEAN},
          intent_llm \in {Raises} \cup {Gives(i) : i \in UserIntents},
          ok \in BOOLEAN : RouteRouter(completeness_llm, intent_llm, ok)
    \/ \E fn \in PymesRoutingFunctions : RoutePymes(fn)
    \/ \E business_info \in SupervisorInfos : RouteSupervisorNode(business_info)

(***************************************************************************)
(* Long-term memory: MemoryService and the code that calls it, with the    *)
(* key each caller builds for the thread it runs.                          *)
(***************************************************************************)
\* calls of the memory's callers in one behaviour
MaxMemoryCalls == 2

\* the last user message of the thread, and the clock (time.time() in
\* seconds) when the node runs
MemoryTexts == {"hola", "quiero cambiar"}
Clocks == {"1762192800", "1762192801"}

\* handoff_system.py:146, enhanced_agents.py:215:
\* f"temp_{hash(user_message) % 10000}", a function of the text alone
temp_hash_thread_id(user_message) ==
    CASE user_message = "hola" -> "temp_4821"
      [] OTHER                 -> "temp_97"

\* supervisor_architecture.py get_thread_id_from_state: the state record has
\* no thread_id key and no message carries one in additional_kwargs
get_thread_id_from_state(state, now) ==
    IF "thread_id" \in DOMAIN state THEN state.thread_id
    ELSE CASE now = "1762192800" -> "temp_1762192800"
           [] OTHER              -> "temp_1762192801"

MemoryKeys ==
    Threads \cup {temp_hash_thread_id(text) : text \in MemoryTexts}
            \cup {get_thread_id_from_state([business_info |-> NoArgs], now) : now \in Clocks}

\* what the LLM of BusinessInfoManager returns (BusinessInfoAnalysis): the
\* values it extracts come as the user typed them
ExtractedInfos ==
    {[nombre_empresa |-> None, ubicacion |-> " Lima "],
     [nombre_empresa |-> "  ", ubicacion |-> None],
     [nombre_empresa |-> " Lima ", ubicacion |-> "  "]}

\* extracted_info: null
NullInfo == [null |-> TRUE]

Analyses ==
    {Raises} \cup
    {Gives([is_important |-> b, extracted_info |-> e]) :
         b \in BOOLEAN, e \in {NullInfo} \cup ExtractedInfos}

\* memory_service.py save_business_info: the store after the call; ok is
\* FALSE when the embedding or the stores fail (the method logs it)
save_business_info(store, thread_id, business_info, ok) ==
    IF ok THEN [store EXCEPT ![thread_id] = business_info] ELSE store

\* business_info_manager.py extract_and_store_business_info with the
\* analysis of the message and the outcome of the save; "raise" when the
\* analysis raises (there is no try block around it)
extract_and_store_business_info(store, message, current_info, thread_id, analysis, save_ok) ==
    IF message.role # "human"
    THEN [kind |-> "return", info |-> current_info, store |-> store, saved |-> FALSE]
    ELSE IF analysis.kind = "raises"
    THEN [kind |-> "raise", info |-> current_info, store |-> store, saved |-> FALSE]
    ELSE IF analysis.value.is_important /\ analysis.value.extracted_info # NullInfo
    THEN LET extracted == analysis.value.extracted_info
             updated_info ==
                 [f \in ModelledFields |->
                     IF extracted[f] # None /\ Strip(extracted[f]) # ""
                     THEN Strip(extracted[f]) ELSE current_info[f]]
             saves == updated_info # current_info /\ thread_id # None
         IN  [kind |-> "return", info |-> updated_info,
              store |-> IF saves
                        THEN save_business_info(store, thread_id, updated_info, save_ok)
                        ELSE store,
              saved |-> saves]
    ELSE [kind |-> "return", info |-> current_info, store |-> store, saved |-> FALSE]

NoCall == [n |-> 0, caller |-> "none"]

MemoryFrame ==
    UNCHANGED <<chatVars, centralVars, pymesVars, toolVars, routeVars, retryVars, researchVars>>

\* what a caller of extract_info does with the outcome: it keeps the old
\* business_info when the call raises
Extraction(caller, t, thread_id, analysis, save_ok) ==
    /\ LET current == mthreads[t].business_info
           out == extract_and_store_business_info(
                      memory, HumanMessage("text"), current, thread_id, analysis, save_ok)
       IN  /\ memory' = out.store
           /\ mthreads' = [mthreads EXCEPT ![t].business_info = out.info]
           /\ mlast' = [n |-> mlast.n + 1, caller |-> caller, thread |-> t,
                        key |-> thread_id, kind |-> out.kind, saved |-> out.saved,
                        save_ok |-> save_ok, analysis |-> analysis,
                        before |-> current, after |-> out.info]
    /\ MemoryFrame

\* handoff_system.py intelligent_supervisor_node, lines 141-167 (the same
\* code is in enhanced_info_completion_node): the business information of
\* the thread's last user message is extracted and stored
SupervisorExtraction(t, user_message, analysis, save_ok) ==
    /\ mlast.n < MaxMemoryCalls
    /\ Extraction("intelligent_supervisor_node", t, temp_hash_thread_id(user_message),
                  analysis, save_ok)

\* supervisor_architecture.py business_info_extraction_node
EvaluatorExtraction(t, now, analysis, save_ok) ==
    /\ mlast.n < MaxMemoryCalls
    /\ Extraction("business_info_extraction_node", t,
                  get_thread_id_from_state(mthreads[t], now), analysis, save_ok)

\* business_info_extraction.py save_to_long_term_memory, then the edge
\* route_after_memory_save; save_business_info is a coroutine function and
\* the node does not await it, so nothing is stored; ok is FALSE when the
\* memory service cannot be built and get_memory_service() raises
SaveToMemoryNode(t, ok) ==
    /\ mlast.n < MaxMemoryCalls
    /\ mthreads[t].stage = "analysis"
    /\ LET out   == save_to_long_term_memory(mthreads[t], ok)
           stage == out.writes["stage"]
       IN  /\ mthreads' = [mthreads EXCEPT ![t].stage = stage]
           /\ mlast' = [n |-> mlast.n + 1, caller |-> "save_to_long_term_memory",
                        thread |-> t, ok |-> ok, stage |-> stage,
                        target |-> route_after_memory_save(
                                       [mthreads[t] EXCEPT !.stage = stage])]
    /\ UNCHANGED memory
    /\ MemoryFrame

\* threads whose information the user has confirmed (stage "analysis")
InitMemory ==
    /\ memory = [k \in MemoryKeys |-> None]
    /\ mthreads = [t \in Threads |->
                      [business_info |-> [f \in ModelledFields |-> "Pollería Jhony"],
                       stage |-> "analysis"]]
    /\ mlast = NoCall

NextMemory ==
    \/ \E t \in Threads, user_message \in MemoryTexts, analysis \in Analyses,
          save_ok \in BOOLEAN : SupervisorExtraction(t, user_message, analysis, save_ok)
    \/ \E t \in Threads, now \in Clocks, analysis \in Analyses,
          save_ok \in BOOLEAN : EvaluatorExtraction(t, now, analysis, save_ok)
    \/ \E t \in Threads, ok \in BOOLEAN : SaveToMemoryNode(t, ok)

Init ==
    /\ InitChat /\ InitCentral /\ InitPymes /\ InitTools /\ InitRouting /\ InitMemory
    /\ InitRetry /\ InitResearch

Spec == Init /\ [][Next]_vars

\* the adapter, and callers of process_message that ask for a reset
\* the adapter's calls, the read-back of the checkpoint included
SpecResult == Init /\ [][NextResult]_vars

SpecRetry == Init /\ [][NextRetry]_vars

SpecReset == Init /\ [][NextReset]_vars

\* the adapter with restarts of its process
SpecRestart == Init /\ [][NextRestart]_vars

SpecCentral == Init /\ [][NextCentral]_vars

SpecPymes == Init /\ [][NextPymes]_vars

\* the executor keeps running a call it has started
SpecPymesFair == SpecPymes /\ WF_vars(PymesSuperstep) /\ WF_vars(PymesOutOfSteps)

SpecTools == Init /\ [][NextTools]_vars

\* the routing functions, applied to each state record of RoutingStates
InitRoutingStates ==
    /\ InitChat /\ InitCentral /\ InitPymes /\ InitTools /\ InitMemory
    /\ InitRetry /\ InitResearch
    /\ rstate \in RoutingStates
    /\ routed = NotRouted

SpecRouting == InitRoutingStates /\ [][NextRouting]_vars

SpecMemory == Init /\ [][NextMemory]_vars

\* perform_deep_research_analysis, for each reply the LLM can give the planner
InitResearchStates ==
    /\ InitChat /\ InitCentral /\ InitPymes /\ InitTools /\ InitRouting /\ InitMemory
    /\ InitRetry
    /\ research \in {[ResearchIdle EXCEPT !.pc = "planner", !.llm = response] :
                        response \in LLMResponses}

SpecResearch == InitResearchStates /\ [][NextResearch]_vars

\* the validation nodes, applied to each state record with each reply
SpecResume == InitRoutingStates /\ [][NextResume]_vars

(***************************************************************************)
(* Properties of the adapter and the multi-agent supervisor graph (Spec).  *)
(***************************************************************************)
AtRest(t) == run.thread # t

\* C1: when a thread has a pending interrupt and the next run is given the
\* user's reply as the resume value, the reply is the value interrupt()
\* returns inside the node that suspended, and the run continues from that
\* node, not from the graph's entry node.
C1_ResumeContinuesAtSuspendedNode ==
    (run.pc = "loop" /\ run.count = 0 /\ run.is_resuming)
        => /\ run.start = "enhanced_human_feedback"
           /\ run.resume = run.message

\* the process_message call of a resuming message has applied its input
C1_ResumedRunStarted ==
    /\ run.pc = "loop" /\ run.count = 0 /\ run.is_resuming
    /\ run.prevStatus = "interrupted"

\* C2: after a run for a thread returned status interrupted, the adapter
\* handles the next inbound message of that thread as a resume (is_resuming,
\* the message alone as input) and not as a fresh start.
C2_NextMessageIsResume ==
    (run.pc # "idle" /\ run.prevStatus = "interrupted")
        => /\ run.is_resuming
           /\ ~run.input.initial

C2_Witness ==
    /\ run.pc = "loop"
    /\ run.prevStatus = "interrupted"
    /\ run.is_resuming

\* C3: for a thread at rest whose last run was reported interrupted or
\* completed, the thread has a pending interrupt exactly when the report
\* was interrupted: interrupted leaves a pending interrupt (known to the
\* checkpoint and to the adapter), completed leaves none.
C3_PendingIffInterrupted ==
    \A t \in Threads :
        (AtRest(t) /\ result[t].status \in {"interrupted", "completed"})
            => /\ (result[t].status = "interrupted")
                      <=> (checkpoint[t].interrupt # NoInterrupt)
               /\ (result[t].status = "interrupted") <=> (t \in active_interrupts)
               /\ (result[t].status = "completed") => (checkpoint[t].next = {})

C3_Witness ==
    \E t, u \in Threads :
        /\ AtRest(t) /\ AtRest(u)
        /\ result[t].status = "interrupted"
        /\ checkpoint[t].interrupt # NoInterrupt
        /\ result[u].status = "completed"
        /\ checkpoint[u].interrupt = NoInterrupt

C12_MessagesNeverShrink ==
    [][\A t \in Threads :
          Len(checkpoint'[t].messages) >= Len(checkpoint[t].messages)]_vars

\* a second run on a thread that already holds the messages of a first run
C12_Witness ==
    /\ run.pc = "loop"
    /\ run.prevStatus # "none"
    /\ Len(checkpoint[run.thread].messages) >= 3

\* C14: the business information of a thread accumulates: no step removes
\* a field an earlier turn has set (the adapter never asks for a reset).
C14_ContextAccumulates ==
    [][\A t \in Threads :
          checkpoint[t].business_info \subseteq checkpoint'[t].business_info]_vars

\* a message that is not a resume has started a run on a thread that
\* already had a turn
C14_NewMessageOnExistingThread ==
    /\ run.pc = "loop"
    /\ run.count = 0
    /\ ~run.is_resuming
    /\ run.prevStatus # "none"

\* C15: with restarts of the process between messages, the run of the next
\* message of a thread whose last run was suspended starts in the state and
\* at the node it would have started at without the restart, i.e. with the
\* message given as a resume of the suspended run.
C15_RestartPreservesResume ==
    (run.pc = "invoke" /\ run.prevStatus = "interrupted")
        => InvokeFirst(checkpoint[run.thread], run.input)
               = InvokeFirst(checkpoint[run.thread],
                             process_message_input(run.message, TRUE, FALSE))

\* a message arrived for a suspended thread after a restart of the process
C15_MessageAfterRestart ==
    /\ run.pc = "invoke"
    /\ run.prevStatus = "interrupted"
    /\ ~run.is_resuming
    /\ checkpoint[run.thread].interrupt # NoInterrupt

\* C16: a thread whose checkpoint holds a pending interrupt and whose last
\* run ended with an error result is still known to the adapter as waiting
\* for a resume, so that its next message is processed as a resume.
C16_ResumableAfterError ==
    \A t \in Threads :
        (AtRest(t) /\ result[t].status = "error"
             /\ checkpoint[t].interrupt # NoInterrupt)
            => t \in active_interrupts

\* the resume of a suspended thread ended with an error result
C16_ErrorOnSuspendedThread ==
    \E t \in Threads :
        /\ AtRest(t)
        /\ result[t].status = "error"
        /\ checkpoint[t].interrupt # NoInterrupt

C19_ResetStartsFreshRecord ==
    (run.pc = "loop" /\ run.count = 0 /\ run.reset_thread)
        => LET st == checkpoint[run.thread]
           IN  /\ Len(st.messages) = 1
               /\ st.messages[1].content = run.message
               /\ st.business_info = {}
               /\ st.stage = "none"
               /\ st.interrupt = NoInterrupt

\* a reset call on a thread that already had a turn has applied its input
C19_ResetOnExistingThread ==
    /\ run.pc = "loop"
    /\ run.count = 0
    /\ run.reset_thread
    /\ run.prevStatus # "none"

C10_BoundedRetriesThenError ==
    /\ central.attempt < ProcessMaxRetries
    /\ central.ck_attempt < CheckpointerMaxRetries
    /\ central.sv_attempt < SaverMaxRetries
    /\ central.failures <= ProcessMaxRetries
    /\ central.failures = ProcessMaxRetries
           => central.pc = "idle" /\ cresult.status = "error"
    /\ cresult.status = "completed"
           => central.pc = "idle" /\ central.failures < ProcessMaxRetries

\* every connection attempt of every pass failed: the retries are exhausted
C10_Witness ==
    /\ central.pc = "idle"
    /\ central.failures = ProcessMaxRetries
    /\ central.ck_attempt = CheckpointerMaxRetries - 1
    /\ central.sv_attempt = SaverMaxRetries - 1
    /\ cresult.status = "error"
    /\ cresult.error = SaverError

C7_SuspendNotIntercepted ==
    /\ prun.swallowed = {}
    /\ \A n \in {"validate_business_info", "validate_research_results", "human_feedback"} :
           (n \in prun.ran /\ prun.pc = "idle" /\ prun.given = NoResume
                /\ presult.status # "error")
               => presult.status = "interrupted"

C7_ValidationNodeRan ==
    /\ "validate_business_info" \in prun.ran
    /\ prun.given = NoResume

\* C8: when the value a run is resumed with is a termination token, compared
\* case-insensitively, the run goes to a terminal node and ends completed.
C8_TerminationTokenCompletes ==
    (/\ prun.pc = "idle"
     /\ prun.given # NoResume
     /\ Lower(Strip(prun.given)) \in human_feedback_words
     /\ presult.status # "error")
        => presult.status = "completed"

C8_ResumedWithToken ==
    /\ prun.pc = "idle"
    /\ prun.given = "Done"
    /\ "end_node" \in prun.ran
    /\ presult.status = "interrupted"

\* C20: a super-step in which generate_response ran and was merged is
\* followed by the tool node exactly when the message it returned (the last
\* of the history) carries a tool call, and by human_feedback otherwise;
\* human_feedback, run without a resume value, suspends the run, which ends
\* the turn.
C20_ToolNodeIffToolCalls ==
    [][/\ ("generate_response" \in pthread.next /\ prun.pc = "loop"
              /\ prun'.steps = prun.steps + 1)
          => LET msgs == pthread'.state.messages
                 last == msgs[Len(msgs)]
                 calls == "tool_calls" \in DOMAIN last /\ last.tool_calls
             IN  /\ last.role = "ai"
                 /\ ("action" \in pthread'.next) <=> calls
                 /\ ("human_feedback" \in pthread'.next) <=> ~calls
       /\ ("human_feedback" \in pthread.next /\ prun.pc = "loop"
              /\ prun.resume = NoResume /\ ~OutOfSteps(prun.steps))
          => /\ prun'.pc = "idle"
             /\ presult'.status = "interrupted"
             /\ "human_feedback" \in pthread'.pending]_vars

\* the LLM asked for a tool: the tool node is next
C20_Witness ==
    /\ prun.pc = "loop"
    /\ "action" \in pthread.next
    /\ "tool_calls" \in DOMAIN pthread.state.messages[Len(pthread.state.messages)]

(***************************************************************************)
(* Properties of the agent <-> tools loop (SpecTools).                     *)
(***************************************************************************)
\* C21: a step of the tool node appends one tool message per call of the
\* agent's message, in call order and with the call's id, changes no earlier
\* message, and makes the agent node the active node.
C21_OneResultPerCallThenAgent ==
    [][trun.pc = "tools" =>
          LET n == Len(tstate.messages)
              k == Len(trun.calls)
          IN  /\ trun'.pc = "agent"
              /\ Len(tstate'.messages) = n + k
              /\ SubSeq(tstate'.messages, 1, n) = tstate.messages
              /\ \A i \in 1..k :
                     /\ tstate'.messages[n + i].role = "tool"
                     /\ tstate'.messages[n + i].tool_call_id = trun.calls[i].id]_vars

\* the tool node is about to run two calls of the agent's message
C21_TwoCallsPending ==
    trun.pc = "tools" /\ Len(trun.calls) = 2

\* C24: the step after a handoff tool has returned its Command for the
\* enclosing graph makes the Command's target the active node and merges the
\* Command's update into the state record the node ran on.
C24_HandoffTakesEffect ==
    [][trun.pc = "parent_command" =>
          /\ trun'.active = trun.command.goto
          /\ tstate' = MergePatch(trun.entry, trun.command.update)]_vars

\* a transfer tool has returned its Command with a target and the messages
\* it carries
C24_HandoffRequested ==
    /\ trun.pc = "parent_command"
    /\ trun.command.goto \in AgentNodes
    /\ Len(trun.command.update.messages) > 0

\* C25: the step after a task handoff tool has returned its Command makes
\* the Command's target the active node, on a record whose messages are the
\* one task message and whose other fields are those of the thread.
C25_TargetReceivesTaskMessage ==
    [][(trun.pc = "parent_command" /\ "send" \in DOMAIN trun.command) =>
          /\ trun'.active = trun.command.goto
          /\ Len(tstate'.messages) = 1
          /\ tstate'.messages[1].role = "user"
          /\ tstate'.messages[1].content = trun.command.send.assigned_task
          /\ tstate'.business_info = trun.entry.business_info]_vars

\* a task handoff tool has returned its Command, on a thread with history
\* and saved business information
C25_TaskHandoffRequested ==
    /\ trun.pc = "parent_command"
    /\ "send" \in DOMAIN trun.command
    /\ trun.command.send.messages = <<[role |-> "user", content |-> "tarea", id |-> NoId]>>
    /\ trun.command.send.business_info = tstate.business_info
    /\ tstate.business_info # NoArgs
    /\ Len(tstate.messages) > 1

\* C27: a tool whose body fails does not end the run: the step of the tool
\* node ends where it ends when no tool fails, and when it returns to the
\* agent the result of every failed call is a tool message with the call's
\* id and the tool's failure text, in the messages the agent reads next.
C27_ToolFailureReturnedAsText ==
    [][trun.pc = "tools" =>
          LET n      == Len(tstate.messages)
              k      == Len(trun.calls)
              failed == {i \in 1..k : ~trun'.oks[i]}
              outs   == ToolNode(trun.calls, tstate, [i \in 1..k |-> TRUE])
          IN  /\ trun'.pc =
                     IF \E i \in 1..k : outs[i].graph = "PARENT" THEN "parent_command"
                     ELSE IF Cardinality(InfoWriters(outs)) > 1 THEN "error"
                     ELSE "agent"
              /\ trun'.pc = "agent" =>
                     \A i \in failed :
                         /\ tstate'.messages[n + i].role = "tool"
                         /\ tstate'.messages[n + i].tool_call_id = trun.calls[i].id
                         /\ tstate'.messages[n + i].content \in FailureTexts]_vars

\* the tool node has run a market research on complete information whose
\* body failed, and the agent is the next node
C27_FailedToolThenAgent ==
    /\ trun.pc = "agent"
    /\ trun.calls # <<>>
    /\ trun.oks # <<>>
    /\ \E i \in 1..Len(trun.calls) :
           /\ trun.calls[i].name = "perform_market_research"
           /\ ~trun.oks[i]
    /\ \A f \in ModelledFields : ~IsMissing(tstate.business_info, f)

\* C29: a step of the tool node changes a field of business_info only to a
\* non-empty value that a call of update_business_info supplied for that
\* field; every other field keeps its value.
C29_UpdateIsPureMerge ==
    [][(trun.pc = "tools" /\ trun'.pc = "agent") =>
          \A f \in ModelledFields :
              tstate'.business_info[f] # tstate.business_info[f] =>
                  \E i \in 1..Len(trun.calls) :
                      /\ trun.calls[i].name = "update_business_info"
                      /\ trun.calls[i].args[f] \notin {None, ""}
                      /\ tstate'.business_info[f] = trun.calls[i].args[f]]_vars

\* the tool node is about to run one update_business_info call that gives
\* an empty string for a field the thread has a value for
C29_EmptyValueSupplied ==
    /\ trun.pc = "tools"
    /\ Len(trun.calls) = 1
    /\ trun.calls[1].name = "update_business_info"
    /\ trun.calls[1].args["nombre_empresa"] = ""
    /\ tstate.business_info["nombre_empresa"] = "Pollería Jhony"

(***************************************************************************)
(* Properties of the long-term memory and its callers (SpecMemory).        *)
(***************************************************************************)
\* C26: the key of every call that stores business information while a
\* thread runs is that thread's id, and no run of another thread can build
\* the same key.
C26_KeyedByOwnThread ==
    ("saved" \in DOMAIN mlast /\ mlast.saved) =>
        /\ mlast.key = mlast.thread
        /\ \A t \in Threads \ {mlast.thread} :
               /\ \A text \in MemoryTexts : temp_hash_thread_id(text) # mlast.key
               /\ \A now \in Clocks : get_thread_id_from_state(mthreads[t], now) # mlast.key

\* the supervisor has stored the information of a thread's message
C26_InfoStored ==
    /\ mlast.caller = "intelligent_supervisor_node"
    /\ mlast.saved /\ mlast.save_ok
    /\ memory[mlast.key] = mthreads[mlast.thread].business_info

\* C28: a call that fails to store the business information leaves the
\* caller with what a successful store leaves it with: the same
\* business_info after an extraction, the same stage and the same next node
\* after the node that saves to long-term memory; and it does not raise.
C28_PersistFailureOnlyLogged ==
    /\ ("saved" \in DOMAIN mlast /\ mlast.saved) =>
           /\ mlast.kind = "return"
           /\ mlast.after =
                  extract_and_store_business_info(
                      memory, HumanMessage("text"), mlast.before, mlast.key,
                      mlast.analysis, TRUE).info
    /\ mlast.caller = "save_to_long_term_memory" =>
           /\ mlast.stage = "info_completed"
           /\ mlast.target = "research_opportunities"

\* the node that saves to long-term memory has run while the memory service
\* could not be reached
C28_SaveNodeFailed ==
    /\ mlast.caller = "save_to_long_term_memory"
    /\ ~mlast.ok

(***************************************************************************)
(* Properties of the routing functions (SpecRouting).                      *)
(***************************************************************************)
\* C22: the supervisor and the router return the target of the first test of
\* their chain that holds, in the order of the chain, and their default
\* target when no test holds; the edge function after the router maps the
\* router's decision to its node.
C22_FirstMatchingPredicateWins ==
    /\ (routed.fn = "intelligent_supervisor" /\ routed.ok) =>
           LET user_message  == LastContent(rstate.messages, "human", "")
               business_info == IF user_message # "" /\ Len(rstate.messages) > 1
                                THEN rstate.business_info \cup routed.found
                                ELSE rstate.business_info
               preds == SupervisorPredicates(user_message, business_info)
               first == {i \in 1..Len(preds) :
                           preds[i].holds /\ \A j \in 1..(i - 1) : ~preds[j].holds}
           IN  /\ \A i \in first : routed.target = preds[i].target
               /\ first = {} => routed.target = "research_router"
    /\ (routed.fn = "intelligent_router" /\ routed.ok) =>
           LET preds == RouterPredicates(routed.completeness, routed.intent)
               first == {i \in 1..Len(preds) :
                           preds[i].holds /\ \A j \in 1..(i - 1) : ~preds[j].holds}
           IN  /\ \A i \in first : routed.current_agent = preds[i].target
               /\ first = {} => routed.current_agent = "info_completion"
               /\ routed.target =
                      IF routed.current_agent = "info_completion"
                      THEN "info_completion_agent"
                      ELSE IF routed.current_agent = "conversational"
                      THEN "conversational_agent" ELSE "research_router"

\* the supervisor has routed a message that asks for research and for an
\* opinion, on complete business information: two tests of the chain hold
C22_TwoPredicatesHold ==
    /\ routed.fn = "intelligent_supervisor"
    /\ routed.ok
    /\ LastContent(rstate.messages, "human", "") = "investiga y dime qué opinas"
    /\ rstate.business_info = CriticalFields
    /\ routed.target = "researcher"

\* C23: two applications of one routing function to one state record give
\* the same target.
C23_RoutingDeterministic ==
    [][(routed.fn # "none" /\ routed'.fn = routed.fn /\ rstate' = rstate)
          => routed'.target = routed.target]_vars

\* the supervisor has routed the second user message of a thread
C23_SupervisorRouted ==
    /\ routed.fn = "intelligent_supervisor"
    /\ Len(rstate.messages) > 1

(***************************************************************************)
(* Properties of the validation nodes given a reply (SpecResume).          *)
(***************************************************************************)
\* C30: a validation node given a reply that is none of the answers it
\* expects ends in no error, makes itself the only next node, and suspends
\* when it is entered again.
C30_UnmatchedReplyResuspends ==
    LET reply == Strip(Lower(routed.reply))
        unmatched ==
            \/ /\ routed.fn = "validate_business_info"
               /\ reply \notin {"sí", "si", "yes", "correcto", "ok", "está bien"}
               /\ ~AnyKeyword(reply, {"corregir", "cambiar"})
            \/ /\ routed.fn = "validate_research_results"
               /\ reply \notin {"sí", "si", "yes", "generar plan", "plan de acción"}
               /\ ~AnyKeyword(reply, {"más información", "investigación"})
    IN  (routed.fn \in ValidationNodes /\ unmatched) =>
            /\ routed.kind = "ok"
            /\ routed.next = {routed.fn}
            /\ routed.reentry = "interrupt"

\* the node that validates the business information has been given a reply
\* it does not understand and has answered with its request to clarify
C30_ClarificationAsked ==
    /\ routed.fn = "validate_business_info"
    /\ routed.reply = "otra cosa"
    /\ routed.asks = "No entendí tu respuesta."
    /\ "validate_business_info" \in routed.goto

\* C11: every target a node's Command or a routing function gives, for the
\* state the node runs on and any reply of the user, is a node registered in
\* the graph.
C11_TargetsRegistered ==
    \A n \in pthread.next :
        \A resume \in UserReplies \cup {NoResume} :
            \A ch \in Choices(n) :
                LET out == PymesNode(n, pthread.state, resume, ch)
                IN  /\ out.goto \subseteq PymesNodes
                    /\ PymesEdges(n, StateWith(pthread.state, out)) \subseteq PymesNodes

\* a run is about to execute the node that validates the business info
C11_ValidationNodeNext ==
    /\ prun.pc = "loop"
    /\ "validate_business_info" \in pthread.next

\* C31: every call of process_message that has returned left a result that
\* carries the thread id and a non-empty answer, with status completed,
\* interrupted or error
C31_ResultCarriesThreadAndAnswer ==
    \A t \in Threads :
        result[t] # NoResult =>
            /\ {"thread_id", "answer", "status"} \subseteq DOMAIN result[t]
            /\ result[t].thread_id = t
            /\ result[t].answer # ""
            /\ result[t].status \in {"completed", "interrupted", "error"}

\* a call returned from the branch of the missing checkpoint
C31_CheckpointMissingAfterInvoke ==
    \E t \in Threads :
        /\ run.pc = "idle"
        /\ result[t] = process_message_no_checkpoint
        /\ checkpoint[t].messages # <<>>

\* C32: in the multi-agent supervisor graph the node that runs after an agent
\* is the human-feedback node, the run suspends in that node, and no run
\* comes to the executor's ceiling of super-steps
C32_AgentThenHumanFeedbackSuspends ==
    /\ [](run.pc = "loop" => ~OutOfSteps(run.count))
    /\ [][(run.pc = "loop" /\ run'.count # run.count)
            => LET next == checkpoint[run.thread].next
               IN  /\ next \cap AgentNodes # {}
                       => /\ checkpoint'[run.thread].next = {"enhanced_human_feedback"}
                          /\ run'.pc = "loop"
                   /\ "enhanced_human_feedback" \in next
                       => /\ run'.pc = "returned"
                          /\ checkpoint'[run.thread].interrupt.node = "enhanced_human_feedback"]_vars

\* a run went supervisor, agent, human feedback and is suspended there
C32_SuspendedAfterAgent ==
    /\ run.pc = "returned"
    /\ run.count = 3
    /\ checkpoint[run.thread].interrupt.node = "enhanced_human_feedback"
    /\ checkpoint[run.thread].stage \in {AgentStage(n) : n \in AgentNodes}

\* C33: after a super-step of the PYMES graph the nodes to run next are, for
\* each node that returned a directive, the targets of the directive only,
\* and the targets of the node's edges only for a node that returned none
C33_DirectiveIsOnlySuccessor ==
    [][(prun.pc = "loop" /\ prun'.steps = prun.steps + 1)
        => \E ch \in StepChoices(pthread.next) :
               LET outs == [n \in pthread.next |->
                               PymesNode(n, pthread.state,
                                         IF n \in pthread.pending THEN prun.resume
                                         ELSE NoResume,
                                         ch[n])]
               IN  pthread'.next =
                       UNION {IF outs[n].goto # {}
                              THEN outs[n].goto \cap PymesNodes
                              ELSE PymesEdges(n, StateWith(pthread.state, outs[n])) :
                              n \in pthread.next}]_vars

\* human_feedback was resumed with a termination token and its directive to
\* end_node was applied
C33_DirectiveToEndNodeApplied ==
    /\ prun.pc = "loop"
    /\ Lower(Strip(prun.given)) \in human_feedback_words
    /\ "human_feedback" \in prun.ran
    /\ "end_node" \in pthread.next

\* C34: a supervisor gives the researcher as the node to run only on business
\* information in which every critical field is present
C34_ResearchOnlyWithCriticalFields ==
    /\ (routed.fn = "intelligent_supervisor" /\ routed.target = "researcher")
           => CriticalFields \subseteq (rstate.business_info \cup routed.found)
    /\ (routed.fn = "supervisor" /\ routed.target = "researcher")
           => CriticalFields \subseteq routed.business_info

\* the supervisor of supervisor_architecture.py has sent a thread to the
\* researcher
C34_SupervisorChoseResearcher ==
    /\ routed.fn = "supervisor"
    /\ routed.target = "researcher"
    /\ required_fields \subseteq routed.business_info

\* C35: in every retry loop around the checkpoint store the wait before the
\* k-th retry is the loop's base delay times 2^(k-1)
C35_WaitsGrowExponentially ==
    \A k \in 1..Len(retry.waits) : retry.waits[k] = retry.delay * Pow2(k - 1)

\* a loop other than the decorator has waited before its third retry
C35_ThirdRetryWaited ==
    /\ retry.loop = "get_async_postgres_saver"
    /\ Len(retry.waits) >= 3

\* C37: a function wrapped by with_retry is called at most max_retries
\* times, and the wrapper ends by returning the function's result or by
\* raising the function's last exception, never by its trailing RuntimeError
C37_WrapperReturnsOrReraises ==
    retry.loop = "with_retry" =>
        /\ retry.calls <= retry.max_retries
        /\ retry.pc \in {"running", "returned", "raised"}
        /\ retry.pc = "raised" => retry.calls = retry.max_retries

\* the wrapper of a function decorated with max_retries 0 has been called
C37_WrapperCalledWithZeroRetries ==
    /\ retry.loop = "with_retry"
    /\ retry.max_retries = 0
    /\ retry.pc # "running"

\* C36: a call of process_message_with_central_orchestrator hands its input
\* to the graph at most max_retries times, starts a further attempt only
\* after an exception whose text names a connection or PostgreSQL, and has
\* returned a result with status completed or error when it is over
C36_RetriesOnlyConnectionErrors ==
    /\ [](central.applies <= ProcessMaxRetries)
    /\ []((central.pc = "idle" /\ ccalls > 0) => cresult.status \in {"completed", "error"})
    /\ [][central'.attempt = central.attempt + 1
            => /\ central'.last_error \in {"server closed the connection unexpectedly", SaverError}
               /\ central.attempt < ProcessMaxRetries - 1]_vars

\* a call whose first attempt lost the connection during the run and whose
\* second attempt completed
C36_CompletedOnSecondAttempt ==
    /\ central.pc = "idle"
    /\ central.attempt = 1
    /\ central.applies = 2
    /\ central.last_error = "server closed the connection unexpectedly"
    /\ cresult.status = "completed"

\* C39: the node that saves to long-term memory writes the stage
\* info_completed only in a step in which the memory service stored the
\* business information, and one of info_completed and error in any case
C39_StageCompletedOnlyAfterSave ==
    [][(mlast'.caller = "save_to_long_term_memory" /\ mlast'.n = mlast.n + 1)
         => /\ mlast'.stage \in {"info_completed", "error"}
            /\ mlast'.stage = "info_completed" => memory' # memory]_vars

\* the node has run with the memory service at hand and has written the
\* stage info_completed
C39_SaveNodeCompleted ==
    /\ mlast.caller = "save_to_long_term_memory"
    /\ mlast.ok
    /\ mlast.stage = "info_completed"
    /\ mthreads[mlast.thread].stage = "info_completed"

\* C40: the plan create_research_plan returns has between 4 and 6 queries,
\* whatever the LLM returned, an empty reply and a failing call included
C40_PlanHasFourToSixQueries ==
    research.pc = "planned" =>
        Len(research.research_plan) >= 4 /\ Len(research.research_plan) <= 6

\* the planner has made its plan from an empty reply of the LLM
C40_PlannedFromEmptyReply ==
    /\ research.pc = "planned"
    /\ research.llm = [ok |-> TRUE, content |-> EmptyContent]
    /\ research.research_plan = GenericQueries

\* C38: every query of the plan yields exactly one entry of
\* research_results, a success or an error, and the synthesizer runs once,
\* only after every worker has finished, over as many results as the plan
\* has queries
C38_OneResultPerQueryOneSynthesis ==
    /\ research.synthesizer_runs <= 1
    /\ research.pc \in {"planner", "planned", "workers"} =>
           research.synthesizer_runs = 0 /\ research.research_results = <<>>
    /\ research.pc \in {"synthesizer", "END"} =>
           /\ research.tasks = <<>>
           /\ Len(research.research_results) = Len(research.research_plan)
           /\ \A i \in 1..Len(research.research_plan) :
                  /\ research.research_results[i].query = research.research_plan[i]
                  /\ research.research_results[i].status \in {"success", "error"}
    /\ research.pc = "END" =>
           /\ research.synthesizer_runs = 1
           /\ research.execution_summary[2] = Len(research.research_plan)

\* a plan of six queries has been worked, some searches failed and some
\* succeeded, and the synthesizer has run
C38_SynthesizedSixWithErrors ==
    /\ research.pc = "END"
    /\ research.synthesizer_runs = 1
    /\ Len(research.research_plan) = 6
    /\ research.execution_summary \in {<<n, 6>> : n \in 1..5}

====
